---- MODULE Spec2Model ----
(***************************************************************************)
(* Model of the USB Bulk-Only-Transport layer and the LCD frame upload of  *)
(* src/src/CLcdDriver.cpp: send_scsi_command (CBW -> data phase -> CSW),   *)
(* the auto-tag counter TAG, and update_lcd_image (three vendor chunk      *)
(* commands per frame).                                                    *)
(*                                                                         *)
(* Byte vectors the transport inspects (CBW, CSW, CDB) are sequences of    *)
(* bytes.  Payload vectors (data_out, data_in, the packed chunks) are      *)
(* never inspected by the transport, only sized, moved and handed over, so *)
(* a payload is a record [len, content]: its size() and an identity of its *)
(* bytes.                                                                  *)
(***************************************************************************)
EXTENDS Integers, Sequences, FiniteSets, TLC

(* ---------------- bounds of the model ---------------- *)
\* number of direct send_scsi_command calls explored
MaxDirect == 1
\* number of update_lcd_image calls explored
MaxFrames == 2
\* distance of the second start value of TAG from the 32-bit wrap
NearWrap == 1
\* number of device_ready calls explored
MaxReady == 2
\* number of handshake_with_device calls explored
MaxHandshakes == 1
\* number of Stage 1 iterations explored in one handshake
MaxIter == 2
\* seconds the clock is followed past the handshake deadline
MaxLate == 1
\* frames a preloaded clip holds at most
MaxVideoFrames == 3
\* iterations of a playback worker that are followed
MaxTicks == 5
\* get_background_bytes calls explored
MaxBgCalls == 3
\* times the files at the image paths are written
MaxWrites == 2
\* modification times of a file that are told apart
MaxMtime == 2
\* iterations of the poll worker that are followed
MaxPolls == 2

(* ---------------- program constants ---------------- *)
WIDTH == 320
HEIGHT == 240
TagInit == 1
EP_OUT == 2
EP_IN == 129
CBW_SIZE == 31
CSW_SIZE == 13
W16 == 65536
NULL == 0
Handle == 1
\* the addresses libusb_open can hand out, and a pointer that is none of them
HandleIds == {1, 2}
Wild == 3
chunk_widths == <<120, 120, 80>>

(* ---------------- byte helpers ---------------- *)
\* the four bytes  x & 0xFF, (x >> 8) & 0xFF, (x >> 16) & 0xFF, (x >> 24) & 0xFF
LE32(x) ==
  << x % 256, (x \div 256) % 256, (x \div 65536) % 256, (x \div 16777216) % 256 >>

\* data_len is a uint32_t; every size the model passes is below 2^31
TruncU32(n) == n

\* a 32-bit unsigned tag as two 16-bit halves (tag = hi * 2^16 + lo)
U32Of(n) == [hi |-> n \div W16, lo |-> n % W16]
Zero32 == U32Of(0)
\* t + 1 in uint32_t arithmetic
Inc32(t) ==
  IF t.lo = W16 - 1 THEN [hi |-> (t.hi + 1) % W16, lo |-> 0]
  ELSE [hi |-> t.hi, lo |-> t.lo + 1]
Lt32(a, b) == a.hi < b.hi \/ (a.hi = b.hi /\ a.lo < b.lo)
\* tag & 0xFF, (tag >> 8) & 0xFF, (tag >> 16) & 0xFF, (tag >> 24) & 0xFF
TagBytes(t) == << t.lo % 256, t.lo \div 256, t.hi % 256, t.hi \div 256 >>
FromTagBytes(b) == [hi |-> b[3] + 256 * b[4], lo |-> b[1] + 256 * b[2]]

USBC == <<85, 83, 66, 67>>
USBS == <<85, 83, 66, 83>>

\* a std::vector<uint8_t> payload: size and identity of the bytes
Vec(n, c) == [len |-> n, content |-> c]
EmptyVec == Vec(0, "none")

\* dst = std::move(src) on std::vector: dst takes the buffer, src is left
\* empty (libstdc++ / libc++ move assignment with std::allocator)
MoveAssign(src) == [dst |-> src, src |-> EmptyVec]

(* ---------------- inputs ---------------- *)
tur_cdb == <<0, 0, 0, 0, 0, 0>>
sense_cdb == <<3, 0, 0, 0, 18, 0>>
mode_cdb == <<26, 0, 0, 0, 192, 0>>
inquiry_cdb == <<18, 0, 0, 0, 36, 0>>
f5_cdb == <<245, 0, 0, 0, 0, 0, 0, 0, 0, 0, 0, 0, 0, 0, 0, 0>>
splash_size == 57627
\* std::chrono::seconds(10)
Deadline == 10
apix_cdb == <<245, 65, 80, 73, 88, 179, 12, 0, 0, 0, 0, 0, 0, 0, 0, 0>>
\* two further CDB sizes a caller of the public function may pass
read10_cdb == <<40, 0, 0, 0, 0, 0, 0, 0, 1, 0>>
report12_cdb == <<160, 0, 0, 0, 0, 0, 0, 0, 0, 16, 0, 0>>

DirectCdbs == {tur_cdb, inquiry_cdb, read10_cdb, report12_cdb, apix_cdb}
HandshakeTag == 1653339488
DirectTags == {Zero32, U32Of(HandshakeTag)}
DirectDataInLens == {0, 36}
DirectDataOuts == {EmptyVec, Vec(57627, "splash")}

\* libusb_bulk_transfer return codes: 0 = success, -7 = LIBUSB_ERROR_TIMEOUT
LibusbRc == {0, -7}
CbwTransferred == {CBW_SIZE, CBW_SIZE - 1}
CswTransferred == {CSW_SIZE, CSW_SIZE - 1}
CswSigs == {USBS, USBC}
CswStatuses == {0, 1, 2}
DataContents == {"d1"}
\* value of an uninitialized uint8_t member read by the caller
UninitByte == 0 .. 255

VARIABLES
  TAG,        \* static uint32_t TAG
  _dev,       \* static libusb_device_handle* _dev
  caller,     \* who is running: "none", "direct", "update_lcd_image"
  pc,         \* position inside send_scsi_command
  call,       \* arguments of the running send_scsi_command
  cbw,        \* the CBW built by the running call
  data_in,    \* local std::vector<uint8_t> data_in
  csw,        \* local CSW buffer after the CSW read
  result,     \* the ScsiResult returned by the call
  wire,       \* bulk transfers issued by the running call, in order
  lastAuto,   \* the previous auto-assigned tag, if one was assigned
  ulcd,       \* locals of the running update_lcd_image
  frameWire,  \* bulk transfers of the running update_lcd_image, with chunk index
  lastFrame,  \* outcome of the last update_lcd_image that returned
  ndirect,    \* direct calls made
  nframes,    \* update_lcd_image calls made
  pk,         \* locals of the running image_to_rgb565_chunks
  openHandles,\* libusb device handles opened and not closed
  devOp,      \* the last init_dev / cleanup_dev: its libusb calls and outcome
  dr,         \* locals and outcome of device_ready
  hs,         \* locals and outcome of handshake_with_device
  now,        \* std::chrono::steady_clock, in seconds
  ctl,        \* control transfers and clear-halts of the running operation
  fs,         \* the files the paths name: what each decodes to, and its mtime
  bg_manager, \* BackgroundManager bg_manager: its members and its last call
  video_bg,   \* the VideoBackground object and its playback worker
  poller      \* the SystemInfoPoller object and its worker

vars == << TAG, _dev, caller, pc, call, cbw, data_in, csw, result, wire,
           lastAuto, ulcd, frameWire, lastFrame, ndirect, nframes,
           pk, openHandles, devOp, dr, hs, now, ctl,
           fs, bg_manager, video_bg, poller >>

\* state of the operations that do not take part in a transfer step
\* state of the background compositor and of the metrics poller
compVars == << fs, bg_manager, video_bg, poller >>

hostVars == << pk, dr, hs, now, ctl, compVars >>

NoCall == [dev |-> NULL, cdb |-> <<>>, data_out |-> EmptyVec, data_in_len |-> 0,
           tagArg |-> Zero32, tag |-> Zero32, before |-> Zero32,
           prevAuto |-> [valid |-> FALSE, tag |-> Zero32]]
NoResult == [ok |-> FALSE, status |-> 0, data |-> EmptyVec]
NoUlcd == [dev |-> NULL, idx |-> 0, frame |-> 0, oks |-> <<>>, sent |-> 0]
NoFrame == [frame |-> 0, ret |-> FALSE, oks |-> <<>>, sent |-> 0, dev |-> NULL]
NoEmit == [chunk |-> 0, offset |-> 0, lo |-> 0, hi |-> 0, idx |-> 0, valid |-> FALSE]
NoPk == [state |-> "idle", img |-> "none", i |-> 0, col |-> 0, row |-> 0,
         start |-> 0, sizes |-> << 0, 0, 0 >>, last |-> NoEmit]
NoDevOp == [name |-> "none", devBefore |-> NULL, openBefore |-> {}, log |-> << >>,
            ret |-> "none", found |-> FALSE, openOk |-> FALSE, claimOk |-> FALSE]
NoDr == [stage |-> "idle", n |-> 0, tur |-> [ok |-> FALSE, status |-> 0],
         ret |-> FALSE]
NoStart == [valid |-> FALSE, cmd |-> "none", at |-> 0, stage2 |-> FALSE]
NoHs == [stage |-> "idle", n |-> 0, iter |-> 0, overall_deadline |-> 0,
         lastStart |-> NoStart, nstage2 |-> 0, s1ok |-> FALSE, okAt |-> 0,
         s2res |-> [step |-> "none", ok |-> FALSE, len |-> 0], ret |-> FALSE]

\* cv::Mat: empty() or a 320x240 image; channels() and the bytes per channel
\* of its depth; content tells which pixels it holds (src, path, ver)
NoContent == [src |-> "none", path |-> "", ver |-> 0]
EmptyMat == [empty |-> TRUE, channels |-> 0, depth |-> 0, content |-> NoContent]
ImagePaths == {"a.png", "b.png"}
NoFile == [kind |-> "missing", mtime |-> 0]
NoFs == [p \in ImagePaths |-> NoFile]
NoBgCall == [valid |-> FALSE, video_path |-> "", image_path |-> "", img |-> EmptyMat,
             vid |-> EmptyMat, bg |-> EmptyMat, source |-> "none",
             decoded |-> FALSE, hit |-> FALSE, outcome |-> "none", size |-> 0,
             replaced |-> FALSE, workers_before |-> 0, workers_at_new |-> 0,
             workers_after |-> 0]
NoBgManager == [static_bg |-> EmptyMat, static_bg_path |-> "", static_bg_mtime |-> 0,
                has_alpha |-> FALSE, default_bg |-> EmptyMat, ncalls |-> 0,
                nwrites |-> 0, last |-> NoBgCall]
NoVideoFile == [opened |-> FALSE, total_frames |-> 0, fps |-> 0, nread |-> 0]
NoVideo == [exists |-> FALSE, path |-> "", mode |-> "loop", _fps |-> 0,
            _frames |-> 0, _frame_index |-> 0, _forward |-> TRUE,
            _playing |-> FALSE, _streaming |-> FALSE, cap |-> FALSE,
            _current_frame |-> EmptyMat, file |-> NoVideoFile, ticks |-> 0,
            _thread |-> "none", stopping |-> FALSE, stopped |-> FALSE]

\* A sample is what one probe gave: an exception, or a value.  Temperatures
\* are in tenths of a degree; every other value is a whole number.
Thrown == [throws |-> TRUE, v |-> 0]
Val(x) == [throws |-> FALSE, v |-> x]
ThrownStats == [throws |-> TRUE, v |-> << >>]
EmptyMap == [k \in {} |-> 0]
NoMachine == [gpu |-> "none", hwmon |-> FALSE, percent |-> 0, count |-> 0,
              cpufreq |-> 0, cputemp |-> 0, mem |-> << 0, 0 >>,
              disk |-> << 0, 0 >>]

NoFast == [percent |-> Thrown, cputemp |-> Thrown, cpufreq |-> Thrown,
           gpu |-> ThrownStats]
NoSlow == [count |-> Thrown, disk |-> [throws |-> TRUE, v |-> << 0, 0 >>],
           mem |-> [throws |-> TRUE, v |-> << 0, 0 >>]]
NoTick == [valid |-> FALSE, fast |-> FALSE, slow |-> FALSE, f |-> NoFast,
           s |-> NoSlow, fast_out |-> EmptyMap, slow_out |-> EmptyMap,
           before |-> EmptyMap, running |-> FALSE]

\* one iteration of _poll_loop as the clock saw it: now, the two deadlines
\* before it, which batches ran and in which order, and for each batch the
\* time of this worker's previous run (-1: none) and whether the clock has
\* gone forward only since then
NoSched == [valid |-> FALSE, first |-> FALSE, now |-> 0, nf |-> 0, ns |-> 0,
            fast |-> FALSE, slow |-> FALSE, order |-> << >>,
            prev_fast |-> -1, prev_slow |-> -1,
            mono_fast |-> TRUE, mono_slow |-> TRUE]

\* _thread is "none" (not joinable), "running" (the worker is in _poll_loop)
\* or "finished" (_poll_loop has returned, not yet joined); live counts the
\* worker threads inside _poll_loop; owner is where the thread that owns the
\* poller is: "idle", in "stop", in "get_info" (holding _lock) or in
\* "get_available_metrics"
NoPoller == [exists |-> FALSE, _running |-> FALSE, started |-> FALSE,
             machine |-> NoMachine, detected |-> {}, info |-> EmptyMap,
             npolls |-> 0, last |-> NoTick,
             _thread |-> "none", live |-> 0, owner |-> "idle",
             stopped |-> FALSE, clock |-> 0, next_fast |-> 0, next_slow |-> 0,
             last_fast |-> -1, last_slow |-> -1, mono_fast |-> TRUE,
             mono_slow |-> TRUE, sched |-> NoSched, raced |-> FALSE,
             metrics |-> "none", nback |-> 0]

\* TAG is 1 at program start; the second value is the counter after
\* 2^32 - NearWrap - 1 auto-tagged calls, which puts the 32-bit wrap in reach
TagStart == {U32Of(TagInit), [hi |-> W16 - 1, lo |-> W16 - NearWrap]}

Init ==
  /\ TAG \in TagStart
  /\ _dev = NULL
  /\ caller = "none"
  /\ pc = "idle"
  /\ call = NoCall
  /\ cbw = <<>>
  /\ data_in = EmptyVec
  /\ csw = <<>>
  /\ result = NoResult
  /\ wire = <<>>
  /\ lastAuto = [valid |-> FALSE, tag |-> Zero32]
  /\ ulcd = NoUlcd
  /\ frameWire = <<>>
  /\ lastFrame = NoFrame
  /\ ndirect = 0
  /\ nframes = 0
  /\ pk = NoPk
  /\ openHandles = {}
  /\ devOp = NoDevOp
  /\ dr = NoDr
  /\ hs = NoHs
  /\ now = 0
  /\ ctl = << >>
  /\ fs = NoFs
  /\ bg_manager = NoBgManager
  /\ video_bg = NoVideo
  /\ poller = NoPoller

(* ---------------- device handle ---------------- *)
\* one libusb call on handle h; live tells whether h was an open handle then
UsbCall(fn, h, open) == [fn |-> fn, h |-> h, live |-> h \in open]

\* the process ends on a signal: a libusb call has dereferenced a pointer that
\* is not a device handle
Crashed == caller = "crashed"

\* the values the uninitialized local `handle` of open_dev can hold when
\* libusb_open fails: null, the address of the handle closed just before, or
\* any other address
UninitHandle(old) == {NULL, Wild} \cup ({old} \ {NULL})

\* the address libusb_open returns for a new handle
NewHandle(open) == CHOOSE h \in HandleIds \ open : \A g \in HandleIds \ open : h <= g

\* open_dev: nullptr when no device matches; on a match libusb_open's return
\* code is ignored and `handle` is returned as it is
open_dev(found, openOk, garbage, open) ==
  IF ~found THEN NULL
  ELSE IF openOk THEN NewHandle(open)
  ELSE garbage

\* if (_dev != nullptr) { libusb_release_interface(_dev, 0); libusb_close(_dev); }
CloseOld(old, open) ==
  IF old = NULL THEN << >>
  ELSE << UsbCall("libusb_release_interface", old, open),
          UsbCall("libusb_close", old, open) >>

\* the calls init_dev makes on the handle it got from open_dev
UseNew(h, open) ==
  << UsbCall("libusb_set_auto_detach_kernel_driver", h, open),
     UsbCall("libusb_release_interface", h, open),
     UsbCall("libusb_claim_interface", h, open),
     UsbCall("libusb_reset_device", h, open) >>

\* init_dev. libusb reports errors by return code and never throws, so no catch
\* block runs: every return is `return true`. A call on a pointer that is not
\* an open handle either ends the process or goes through (survive).
init_dev ==
  /\ caller = "none"
  /\ \E found \in BOOLEAN, openOk \in BOOLEAN, claimOk \in BOOLEAN,
        survive \in BOOLEAN, garbage \in UninitHandle(_dev) :
       LET old == _dev
           oldBad == old # NULL /\ old \notin openHandles
           open1 == openHandles \ {old}
           h == open_dev(found, openOk, garbage, open1)
           open2 == IF found /\ openOk THEN open1 \cup {h} ELSE open1
           op == [name |-> "init_dev", devBefore |-> old, openBefore |-> openHandles,
                  log |-> << >>, ret |-> "true", found |-> found, openOk |-> openOk,
                  claimOk |-> claimOk]
       IN  IF oldBad /\ ~survive
           THEN /\ devOp' = [op EXCEPT !.log = SubSeq(CloseOld(old, openHandles), 1, 1),
                                       !.ret = "crash"]
                /\ caller' = "crashed"
                /\ UNCHANGED << _dev, openHandles >>
           ELSE IF h = NULL \/ (h \notin open2 /\ ~survive)
           THEN /\ devOp' = [op EXCEPT !.log = CloseOld(old, openHandles)
                                               \o SubSeq(UseNew(h, open2), 1, 1),
                                       !.ret = "crash"]
                /\ caller' = "crashed"
                /\ _dev' = h
                /\ openHandles' = open2
           ELSE /\ devOp' = [op EXCEPT !.log = CloseOld(old, openHandles)
                                               \o UseNew(h, open2)]
                /\ _dev' = h
                /\ openHandles' = open2
                /\ UNCHANGED caller
  /\ UNCHANGED << TAG, pc, call, cbw, data_in, csw, result, wire,
                  lastAuto, ulcd, frameWire, lastFrame, ndirect, nframes >>
  /\ UNCHANGED << pk, compVars, dr, hs, now, ctl >>

\* cleanup_dev: release, close and clear a non-null _dev
cleanup_dev ==
  /\ caller = "none"
  /\ \E survive \in BOOLEAN :
       LET old == _dev
           oldBad == old # NULL /\ old \notin openHandles
           op == [name |-> "cleanup_dev", devBefore |-> old, openBefore |-> openHandles,
                  log |-> CloseOld(old, openHandles), ret |-> "void", found |-> FALSE,
                  openOk |-> FALSE, claimOk |-> FALSE]
       IN  IF oldBad /\ ~survive
           THEN /\ devOp' = [op EXCEPT !.log = SubSeq(CloseOld(old, openHandles), 1, 1),
                                       !.ret = "crash"]
                /\ caller' = "crashed"
                /\ UNCHANGED << _dev, openHandles >>
           ELSE /\ devOp' = op
                /\ _dev' = NULL
                /\ openHandles' = openHandles \ {old}
                /\ UNCHANGED caller
  /\ UNCHANGED << TAG, pc, call, cbw, data_in, csw, result, wire,
                  lastAuto, ulcd, frameWire, lastFrame, ndirect, nframes >>
  /\ UNCHANGED << pk, compVars, dr, hs, now, ctl >>

(* ---------------- send_scsi_command ---------------- *)
\* variant: pre-increment, tag = ++TAG
AssignTag_PreInc(tag, T) ==
  [tag |-> IF tag = Zero32 THEN Inc32(T) ELSE tag,
   TAG |-> IF tag = Zero32 THEN Inc32(T) ELSE T]

\* if (tag == 0) tag = TAG++;
AssignTag(tag, T) ==
  [tag |-> IF tag = Zero32 THEN T ELSE tag,
   TAG |-> IF tag = Zero32 THEN Inc32(T) ELSE T]

\* variant: the transfer length written most significant byte first
BuildCBW_BigEndianLen(cdb, data_out, data_in_len, tag) ==
  LET data_len == TruncU32(IF data_in_len # 0 THEN data_in_len ELSE data_out.len)
      le == LE32(data_len)
      head == USBC \o TagBytes(tag) \o << le[4], le[3], le[2], le[1] >>
                \o << (IF data_in_len # 0 THEN 128 ELSE 0), 0, Len(cdb) % 256 >>
      base == [i \in 1 .. CBW_SIZE |-> IF i <= Len(head) THEN head[i] ELSE 0]
  IN  [i \in 1 .. CBW_SIZE |->
         IF i >= 16 /\ i <= 15 + Len(cdb) THEN cdb[i - 15] ELSE base[i]]

\* the 31-byte CBW
BuildCBW(cdb, data_out, data_in_len, tag) ==
  LET data_len == TruncU32(IF data_in_len # 0 THEN data_in_len ELSE data_out.len)
      head == USBC \o TagBytes(tag) \o LE32(data_len)
                \o << (IF data_in_len # 0 THEN 128 ELSE 0), 0, Len(cdb) % 256 >>
      base == [i \in 1 .. CBW_SIZE |-> IF i <= Len(head) THEN head[i] ELSE 0]
  IN  [i \in 1 .. CBW_SIZE |->
         IF i >= 16 /\ i <= 15 + Len(cdb) THEN cdb[i - 15] ELSE base[i]]

\* variant: the data-out branch tested first
DataPhase_OutFirst(data_in_len, data_out) ==
  IF data_out.len # 0 THEN "data_out"
  ELSE IF data_in_len # 0 THEN "data_in"
  ELSE "csw"

\* which data phase follows the CBW
DataPhase(data_in_len, data_out) ==
  IF data_in_len # 0 THEN "data_in"
  ELSE IF data_out.len # 0 THEN "data_out"
  ELSE "csw"

\* variant: the transferred != 13 test left out
CswInvalid_NoShortCheck(rc, transferred, buf) ==
  rc # 0 \/ SubSeq(buf, 1, 4) # USBS

\* rc != 0 || transferred != 13 || memcmp(csw, "USBS", 4) != 0
CswInvalid(rc, transferred, buf) ==
  rc # 0 \/ transferred # 13 \/ SubSeq(buf, 1, 4) # USBS

\* the result on an invalid CSW; data was moved into result before the read
CswFailResult(data) == [ok |-> FALSE, status |-> 2, data |-> data]

\* the result parsed from a valid CSW; din is data_in at that point
ParseCSW(buf, din) ==
  [ok |-> buf[13] = 0, status |-> buf[13], data |-> MoveAssign(din).dst]

\* function entry up to the CBW being ready to send
Enter(dev, cdb, data_out, data_in_len, tag) ==
  LET a == AssignTag(tag, TAG) IN
  /\ TAG' = a.TAG
  /\ call' = [dev |-> dev, cdb |-> cdb, data_out |-> data_out,
              data_in_len |-> data_in_len, tagArg |-> tag, tag |-> a.tag,
              before |-> TAG, prevAuto |-> lastAuto]
  /\ cbw' = BuildCBW(cdb, data_out, data_in_len, a.tag)
  /\ data_in' = EmptyVec
  /\ csw' = <<>>
  /\ result' = NoResult
  /\ wire' = <<>>
  /\ lastAuto' = IF tag = Zero32
                 THEN [valid |-> TRUE, tag |-> FromTagBytes(SubSeq(cbw', 5, 8))]
                 ELSE lastAuto
  /\ pc' = "write_cbw"

\* a caller other than update_lcd_image calls send_scsi_command on _dev
send_scsi_command ==
  /\ caller = "none"
  /\ _dev # NULL
  /\ ndirect < MaxDirect
  /\ IF _dev \in openHandles
     THEN /\ \E cdb \in DirectCdbs, data_out \in DirectDataOuts,
                data_in_len \in DirectDataInLens, tag \in DirectTags :
               Enter(_dev, cdb, data_out, data_in_len, tag)
          /\ caller' = "direct"
          /\ ndirect' = ndirect + 1
     ELSE \* libusb_bulk_transfer on a pointer that is not a handle
          /\ caller' = "crashed"
          /\ UNCHANGED << TAG, pc, call, cbw, data_in, csw, result, wire,
                          lastAuto, ndirect >>
  /\ lastFrame' = NoFrame
  /\ UNCHANGED << _dev, ulcd, frameWire, nframes >>
  /\ devOp' = NoDevOp
  /\ UNCHANGED << openHandles, hostVars >>

Xfer(what, ep, len, rc, transferred, data) ==
  [what |-> what, ep |-> ep, len |-> len, rc |-> rc, transferred |-> transferred,
   data |-> data]

LogWire(x) ==
  /\ wire' = Append(wire, x)
  /\ frameWire' = IF caller = "update_lcd_image"
                  THEN Append(frameWire, [frame |-> ulcd.frame, idx |-> ulcd.idx,
                                          what |-> x.what])
                  ELSE frameWire

\* libusb_bulk_transfer(dev, 0x02, cbw, 31) and its failure return
WriteCBW ==
  /\ pc = "write_cbw"
  /\ \E rc \in LibusbRc, transferred \in CbwTransferred :
       /\ LogWire(Xfer("cbw", EP_OUT, Len(cbw), rc, transferred, cbw))
       /\ IF rc # 0 \/ transferred # Len(cbw)
          THEN /\ \E s \in UninitByte :
                    result' = [ok |-> FALSE, status |-> s, data |-> EmptyVec]
               /\ pc' = "done"
          ELSE /\ result' = result
               /\ pc' = DataPhase(call.data_in_len, call.data_out)
  /\ UNCHANGED << TAG, _dev, caller, call, cbw, data_in, csw, lastAuto, ulcd,
                  lastFrame, ndirect, nframes >>
  /\ UNCHANGED << pk, compVars, openHandles, devOp, dr, hs, now, ctl >>

\* data_in.resize(n); libusb_bulk_transfer(dev, 0x81, data_in, n)
DataIn ==
  /\ pc = "data_in"
  /\ \E rc \in LibusbRc, full \in BOOLEAN, c \in DataContents :
       LET n == call.data_in_len
           transferred == IF full THEN n ELSE n - 1
           got == Vec(n, IF transferred = n THEN c ELSE "partial")
       IN  /\ LogWire(Xfer("data_in", EP_IN, n, rc, transferred, got))
           /\ data_in' = got
           /\ IF rc # 0
              THEN /\ result' = [ok |-> FALSE, status |-> 2, data |-> EmptyVec]
                   /\ pc' = "done"
              ELSE /\ result' = result
                   /\ pc' = "csw"
  /\ UNCHANGED << TAG, _dev, caller, call, cbw, csw, lastAuto, ulcd,
                  lastFrame, ndirect, nframes >>
  /\ UNCHANGED << pk, compVars, openHandles, devOp, dr, hs, now, ctl >>

\* libusb_bulk_transfer(dev, 0x02, data_out, data_out.size())
DataOut ==
  /\ pc = "data_out"
  /\ \E rc \in LibusbRc, full \in BOOLEAN :
       LET n == call.data_out.len
           transferred == IF full THEN n ELSE n - 1
       IN  /\ LogWire(Xfer("data_out", EP_OUT, n, rc, transferred, call.data_out))
           /\ IF rc # 0
              THEN /\ result' = [ok |-> FALSE, status |-> 2, data |-> EmptyVec]
                   /\ pc' = "done"
              ELSE /\ result' = result
                   /\ pc' = "csw"
  /\ UNCHANGED << TAG, _dev, caller, call, cbw, data_in, csw, lastAuto, ulcd,
                  lastFrame, ndirect, nframes >>
  /\ UNCHANGED << pk, compVars, openHandles, devOp, dr, hs, now, ctl >>

\* result.data = std::move(data_in); the 13-byte CSW read; check and parse
ReadCSW ==
  /\ pc = "csw"
  /\ \E rc \in LibusbRc, transferred \in CswTransferred, sig \in CswSigs,
        echo \in BOOLEAN, st \in CswStatuses :
       LET devcsw == sig \o TagBytes(IF echo THEN call.tag ELSE Inc32(call.tag))
                         \o LE32(0) \o << st >>
           buf == [i \in 1 .. CSW_SIZE |-> IF i <= transferred THEN devcsw[i] ELSE 0]
           m == MoveAssign(data_in)
       IN  /\ LogWire(Xfer("csw", EP_IN, CSW_SIZE, rc, transferred, buf))
           /\ csw' = buf
           /\ data_in' = m.src
           /\ result' = IF CswInvalid(rc, transferred, buf)
                        THEN CswFailResult(m.dst)
                        ELSE ParseCSW(buf, m.src)
           /\ pc' = "done"
  /\ UNCHANGED << TAG, _dev, caller, call, cbw, lastAuto, ulcd,
                  lastFrame, ndirect, nframes >>
  /\ UNCHANGED << pk, compVars, openHandles, devOp, dr, hs, now, ctl >>

\* the direct caller takes the result; the call's locals die
ReturnDirect ==
  /\ caller = "direct"
  /\ pc = "done"
  /\ caller' = "none"
  /\ pc' = "idle"
  /\ call' = NoCall
  /\ cbw' = <<>>
  /\ data_in' = EmptyVec
  /\ csw' = <<>>
  /\ result' = NoResult
  /\ wire' = <<>>
  /\ UNCHANGED << TAG, _dev, lastAuto, ulcd, frameWire, lastFrame, ndirect, nframes >>
  /\ UNCHANGED << pk, compVars, openHandles, devOp, dr, hs, now, ctl >>

(* ---------------- update_lcd_image ---------------- *)
\* ImageConverter::image_to_rgb565_chunks: three vectors of w * HEIGHT * 2 bytes
image_to_rgb565_chunks(img) ==
  [i \in 1 .. 3 |-> Vec(chunk_widths[i] * HEIGHT * 2, << "frame", img, i - 1 >>)]

\* variant: the chunk length placed at bytes 8..11
ChunkCdb_LenAt8(idx, length) ==
  << 245, 1, 1, idx % 256 >> \o << 0, 0, 0, 0 >> \o LE32(TruncU32(length)) \o << 0, 0, 0, 0 >>

\* the 16-byte vendor CDB of chunk idx
ChunkCdb(idx, length) ==
  << 245, 1, 1, idx % 256 >> \o << 0, 0, 0, 0, 0, 0, 0, 0 >> \o LE32(TruncU32(length))

\* variant: the index advanced by two
NextIdx_Skip(idx) == idx + 2

\* ++idx
NextIdx(idx) == idx + 1

\* variant: only a phase error fails the frame
ChunkFailed_PhaseOnly(res) == ~res.ok /\ res.status = 2

\* if (!res.ok) return false;
ChunkFailed(res) == ~res.ok

\* entry: resolve dev, return false without a device, else pack the image
update_lcd_image ==
  /\ caller = "none"
  /\ nframes < MaxFrames
  /\ nframes' = nframes + 1
  /\ \E devArg \in {NULL, _dev} :
       LET dev == IF devArg = NULL THEN _dev ELSE devArg IN
       IF dev = NULL
       THEN /\ lastFrame' = [frame |-> nframes + 1, ret |-> FALSE, oks |-> <<>>,
                             sent |-> 0, dev |-> dev]
            /\ UNCHANGED << caller, ulcd >>
       ELSE IF dev \notin openHandles
       THEN \* the first libusb_bulk_transfer on a pointer that is not a handle
            /\ caller' = "crashed"
            /\ lastFrame' = NoFrame
            /\ UNCHANGED ulcd
       ELSE /\ caller' = "update_lcd_image"
            /\ ulcd' = [dev |-> dev, idx |-> 0, frame |-> nframes + 1, oks |-> <<>>,
                     sent |-> 0]
            /\ lastFrame' = NoFrame
  /\ frameWire' = <<>>
  /\ UNCHANGED << TAG, _dev, pc, call, cbw, data_in, csw, result, wire, lastAuto, ndirect >>
  /\ devOp' = NoDevOp
  /\ UNCHANGED << openHandles, hostVars >>

\* loop head: idx < chunks.size() sends the chunk command, else return true
update_lcd_image_loop ==
  /\ caller = "update_lcd_image"
  /\ pc = "idle"
  /\ LET chunks == image_to_rgb565_chunks(ulcd.frame) IN
     IF ulcd.idx < Len(chunks)
     THEN /\ Enter(ulcd.dev, ChunkCdb(ulcd.idx, chunks[ulcd.idx + 1].len),
                   chunks[ulcd.idx + 1], 0, Zero32)
          /\ ulcd' = [ulcd EXCEPT !.sent = ulcd.sent + 1]
          /\ UNCHANGED << caller, lastFrame, frameWire >>
     ELSE /\ caller' = "none"
          /\ lastFrame' = [frame |-> ulcd.frame, ret |-> TRUE, oks |-> ulcd.oks,
                           sent |-> ulcd.sent, dev |-> ulcd.dev]
          /\ ulcd' = NoUlcd
          /\ frameWire' = <<>>
          /\ UNCHANGED << TAG, pc, call, cbw, data_in, csw, result, wire, lastAuto >>
  /\ UNCHANGED << _dev, ndirect, nframes >>
  /\ UNCHANGED << pk, compVars, openHandles, devOp, dr, hs, now, ctl >>

\* after the chunk command: !res.ok returns false, else next chunk
update_lcd_image_check ==
  /\ caller = "update_lcd_image"
  /\ pc = "done"
  /\ IF ChunkFailed(result)
     THEN /\ caller' = "none"
          /\ lastFrame' = [frame |-> ulcd.frame, ret |-> FALSE,
                           oks |-> Append(ulcd.oks, result.ok),
                           sent |-> ulcd.sent, dev |-> ulcd.dev]
          /\ ulcd' = NoUlcd
          /\ frameWire' = <<>>
     ELSE /\ ulcd' = [ulcd EXCEPT !.idx = NextIdx(ulcd.idx),
                                  !.oks = Append(ulcd.oks, result.ok)]
          /\ UNCHANGED << caller, lastFrame, frameWire >>
  /\ pc' = "idle"
  /\ call' = NoCall
  /\ cbw' = <<>>
  /\ data_in' = EmptyVec
  /\ csw' = <<>>
  /\ result' = NoResult
  /\ wire' = <<>>
  /\ UNCHANGED << TAG, _dev, lastAuto, ndirect, nframes >>
  /\ UNCHANGED << pk, compVars, openHandles, devOp, dr, hs, now, ctl >>

(* ---------------- device_ready ---------------- *)
\* entries of ctl, in program order: a SCSI command issued, the Mass Storage
\* Reset control request, a clear-halt
ScsiOp(cdb, data_out, data_in_len) ==
  [op |-> "scsi", cdb |-> cdb, data_out |-> data_out, data_in_len |-> data_in_len]
ControlOp(bmRequestType, bRequest) ==
  [op |-> "control", bmRequestType |-> bmRequestType, bRequest |-> bRequest]
ClearHaltOp(ep) == [op |-> "clear_halt", ep |-> ep]

\* libusb_control_transfer(_dev, 0x21, 0xFF, 0, 0, 0, 0, 1000);
\* libusb_clear_halt(_dev, 0x81); libusb_clear_halt(_dev, 0x02)
BotReset == << ControlOp(33, 255), ClearHaltOp(EP_IN), ClearHaltOp(EP_OUT) >>

\* variant: a phase error also asks for sense data
ReadyBranch_SenseOnPhase(res) ==
  IF res.ok THEN "true"
  ELSE IF res.status = 1 \/ res.status = 2 THEN "sense"
  ELSE "false"

\* what device_ready does with the result of TEST UNIT READY
ReadyBranch(res) ==
  IF res.ok THEN "true"
  ELSE IF res.status = 1 THEN "sense"
  ELSE IF res.status = 2 THEN "reset"
  ELSE "false"

\* the locals of a send_scsi_command call die with its return
ClearCall ==
  /\ pc' = "idle"
  /\ call' = NoCall
  /\ cbw' = <<>>
  /\ data_in' = EmptyVec
  /\ csw' = <<>>
  /\ result' = NoResult
  /\ wire' = <<>>

\* entry: TEST UNIT READY on _dev, which is not tested for null
device_ready ==
  /\ caller = "none"
  /\ dr.n < MaxReady
  /\ IF _dev \in openHandles
     THEN /\ Enter(_dev, tur_cdb, EmptyVec, 0, Zero32)
          /\ caller' = "device_ready"
          /\ dr' = [NoDr EXCEPT !.stage = "tur", !.n = dr.n + 1]
          /\ ctl' = << ScsiOp(tur_cdb, EmptyVec, 0) >>
     ELSE \* libusb_bulk_transfer on a pointer that is not a handle
          /\ caller' = "crashed"
          /\ dr' = [NoDr EXCEPT !.n = dr.n + 1]
          /\ ctl' = << >>
          /\ UNCHANGED << TAG, pc, call, cbw, data_in, csw, result, wire, lastAuto >>
  /\ devOp' = NoDevOp
  /\ UNCHANGED << _dev, openHandles, ulcd, frameWire, lastFrame, ndirect, nframes,
                  pk, compVars, hs, now >>

\* after TEST UNIT READY: return true, ask for sense data, reset, or return false
device_ready_tur ==
  /\ caller = "device_ready"
  /\ dr.stage = "tur"
  /\ pc = "done"
  /\ LET res == [ok |-> result.ok, status |-> result.status]
         b == ReadyBranch(result)
     IN  IF b = "sense"
         THEN /\ Enter(_dev, sense_cdb, EmptyVec, 18, Zero32)
              /\ dr' = [dr EXCEPT !.stage = "sense", !.tur = res]
              /\ ctl' = Append(ctl, ScsiOp(sense_cdb, EmptyVec, 18))
              /\ UNCHANGED caller
         ELSE /\ ClearCall
              /\ caller' = "none"
              /\ dr' = [dr EXCEPT !.stage = "returned", !.tur = res,
                                  !.ret = (b = "true")]
              /\ ctl' = IF b = "reset" THEN ctl \o BotReset ELSE ctl
              /\ UNCHANGED << TAG, lastAuto >>
  /\ UNCHANGED << _dev, openHandles, devOp, ulcd, frameWire, lastFrame, ndirect,
                  nframes, pk, compVars, hs, now >>

\* after REQUEST SENSE: reset, clear both halts, return false
device_ready_sense ==
  /\ caller = "device_ready"
  /\ dr.stage = "sense"
  /\ pc = "done"
  /\ ClearCall
  /\ caller' = "none"
  /\ dr' = [dr EXCEPT !.stage = "returned", !.ret = FALSE]
  /\ ctl' = ctl \o BotReset
  /\ UNCHANGED << TAG, lastAuto, _dev, openHandles, devOp, ulcd, frameWire,
                  lastFrame, ndirect, nframes, pk, compVars, hs, now >>

InitReady == Init /\ TAG = U32Of(TagInit)

NextReady ==
  \/ init_dev
  \/ cleanup_dev
  \/ device_ready
  \/ WriteCBW
  \/ DataIn
  \/ ReadCSW
  \/ device_ready_tur
  \/ device_ready_sense

\* device_ready on a device that init_dev and cleanup_dev open and close
SpecReady == InitReady /\ [][NextReady]_vars

(* ---------------- handshake_with_device ---------------- *)
\* the step of the clock, in seconds
TickSeconds == 5

\* steady_clock: time passes while the handshake is blocked in a bulk
\* transfer or in sleep_for
Tick ==
  /\ caller = "handshake_with_device"
  /\ pc \in {"write_cbw", "data_in", "data_out", "csw"} \/ hs.stage \in {"loop", "sleep50"}
  /\ now < hs.overall_deadline + MaxLate
  /\ now' = now + TickSeconds
  /\ UNCHANGED << TAG, _dev, caller, pc, call, cbw, data_in, csw, result, wire,
                  lastAuto, ulcd, frameWire, lastFrame, ndirect, nframes,
                  pk, compVars, openHandles, devOp, dr, hs, ctl >>

\* a send_scsi_command call of the handshake begins now
HsStart(h, cmd, stage2) ==
  [h EXCEPT !.lastStart = [valid |-> TRUE, cmd |-> cmd, at |-> now, stage2 |-> stage2],
            !.nstage2 = IF stage2 THEN @ + 1 ELSE @]

\* the function returns ret; the locals die
HsReturn(h, ret) ==
  /\ ClearCall
  /\ caller' = "none"
  /\ hs' = [h EXCEPT !.stage = "returned", !.ret = ret]
  /\ UNCHANGED << TAG, lastAuto >>

\* if (steady_clock::now() >= overall_deadline) return false;
TimedOut(t, deadline) == t >= deadline

\* if (!sense.data.empty() && sense.data.size() >= 14) ... else reset_transport()
SenseMalformed(res) == ~(res.data.len # 0 /\ res.data.len >= 14)

\* entry: return false without a handle, else take the deadline
handshake_with_device ==
  /\ caller = "none"
  /\ hs.n < MaxHandshakes
  /\ IF _dev = NULL
     THEN /\ hs' = [NoHs EXCEPT !.n = hs.n + 1, !.stage = "returned", !.ret = FALSE]
          /\ UNCHANGED caller
     ELSE IF _dev \notin openHandles
     THEN \* the first libusb_bulk_transfer on a pointer that is not a handle
          /\ hs' = [NoHs EXCEPT !.n = hs.n + 1]
          /\ caller' = "crashed"
     ELSE /\ hs' = [NoHs EXCEPT !.n = hs.n + 1, !.stage = "loop",
                                !.overall_deadline = now + Deadline]
          /\ caller' = "handshake_with_device"
  /\ ctl' = << >>
  /\ devOp' = NoDevOp
  /\ UNCHANGED << TAG, _dev, pc, call, cbw, data_in, csw, result, wire,
                  lastAuto, ulcd, frameWire, lastFrame, ndirect, nframes,
                  pk, compVars, openHandles, dr, now >>

\* Stage 1 loop head: TEST UNIT READY while the deadline has not passed, else
\* the test after the loop returns false
handshake_stage1_loop ==
  /\ caller = "handshake_with_device"
  /\ hs.stage = "loop"
  /\ IF now < hs.overall_deadline
     THEN /\ hs.iter < MaxIter
          /\ Enter(_dev, tur_cdb, EmptyVec, 0, Zero32)
          /\ hs' = [HsStart(hs, "tur", FALSE) EXCEPT !.stage = "tur", !.iter = @ + 1]
          /\ ctl' = << ScsiOp(tur_cdb, EmptyVec, 0) >>
          /\ UNCHANGED caller
     ELSE /\ HsReturn(hs, FALSE)
          /\ UNCHANGED ctl
  /\ UNCHANGED << _dev, ulcd, frameWire, lastFrame, ndirect, nframes,
                  pk, compVars, openHandles, devOp, dr, now >>

\* after TEST UNIT READY: break, REQUEST SENSE on status 1, else MODE SENSE
handshake_stage1_tur ==
  /\ caller = "handshake_with_device"
  /\ hs.stage = "tur"
  /\ pc = "done"
  /\ IF result.ok
     THEN /\ ClearCall
          /\ hs' = [hs EXCEPT !.stage = "check", !.s1ok = TRUE, !.okAt = now]
          /\ UNCHANGED << TAG, lastAuto, ctl >>
     ELSE IF result.status = 1
     THEN /\ Enter(_dev, sense_cdb, EmptyVec, 18, Zero32)
          /\ hs' = [HsStart(hs, "sense", FALSE) EXCEPT !.stage = "sense"]
          /\ ctl' = Append(ctl, ScsiOp(sense_cdb, EmptyVec, 18))
     ELSE /\ Enter(_dev, mode_cdb, EmptyVec, 192, Zero32)
          /\ hs' = [HsStart(hs, "mode", FALSE) EXCEPT !.stage = "mode"]
          /\ ctl' = Append(ctl, ScsiOp(mode_cdb, EmptyVec, 192))
  /\ UNCHANGED << _dev, caller, ulcd, frameWire, lastFrame, ndirect, nframes,
                  pk, compVars, openHandles, devOp, dr, now >>

\* after REQUEST SENSE: reset_transport on a malformed answer, then MODE SENSE
handshake_stage1_sense ==
  /\ caller = "handshake_with_device"
  /\ hs.stage = "sense"
  /\ pc = "done"
  /\ Enter(_dev, mode_cdb, EmptyVec, 192, Zero32)
  /\ hs' = [HsStart(hs, "mode", FALSE) EXCEPT !.stage = "mode"]
  /\ ctl' = (IF SenseMalformed(result) THEN ctl \o BotReset ELSE ctl)
              \o << ScsiOp(mode_cdb, EmptyVec, 192) >>
  /\ UNCHANGED << _dev, caller, ulcd, frameWire, lastFrame, ndirect, nframes,
                  pk, compVars, openHandles, devOp, dr, now >>

\* after MODE SENSE: break, REQUEST SENSE on status 1, else sleep and loop
handshake_stage1_mode ==
  /\ caller = "handshake_with_device"
  /\ hs.stage = "mode"
  /\ pc = "done"
  /\ IF result.ok
     THEN /\ ClearCall
          /\ hs' = [hs EXCEPT !.stage = "check", !.s1ok = TRUE, !.okAt = now]
          /\ UNCHANGED << TAG, lastAuto, ctl >>
     ELSE IF result.status = 1
     THEN /\ Enter(_dev, sense_cdb, EmptyVec, 18, Zero32)
          /\ hs' = [HsStart(hs, "sense2", FALSE) EXCEPT !.stage = "sense2"]
          /\ ctl' = Append(ctl, ScsiOp(sense_cdb, EmptyVec, 18))
     ELSE /\ ClearCall
          /\ hs' = [hs EXCEPT !.stage = "loop"]
          /\ UNCHANGED << TAG, lastAuto, ctl >>
  /\ UNCHANGED << _dev, caller, ulcd, frameWire, lastFrame, ndirect, nframes,
                  pk, compVars, openHandles, devOp, dr, now >>

\* after the second REQUEST SENSE: reset_transport on fewer than 14 bytes, then
\* sleep_for(5 ms) and back to the loop head
handshake_stage1_sense2 ==
  /\ caller = "handshake_with_device"
  /\ hs.stage = "sense2"
  /\ pc = "done"
  /\ ClearCall
  /\ hs' = [hs EXCEPT !.stage = "loop"]
  /\ ctl' = IF result.data.len < 14 THEN ctl \o BotReset ELSE ctl
  /\ UNCHANGED << TAG, lastAuto, _dev, caller, ulcd, frameWire, lastFrame, ndirect,
                  nframes, pk, compVars, openHandles, devOp, dr, now >>

\* after the loop: return false past the deadline, else Stage 2 begins with
\* sleep_for(50 ms)
handshake_check ==
  /\ caller = "handshake_with_device"
  /\ hs.stage = "check"
  /\ IF TimedOut(now, hs.overall_deadline)
     THEN HsReturn(hs, FALSE)
     ELSE /\ hs' = [hs EXCEPT !.stage = "sleep50"]
          /\ UNCHANGED << TAG, caller, pc, call, cbw, data_in, csw, result, wire,
                          lastAuto >>
  /\ UNCHANGED << _dev, ulcd, frameWire, lastFrame, ndirect, nframes,
                  pk, compVars, openHandles, devOp, dr, now, ctl >>

\* Stage 2: INQUIRY with the fixed tag, after the sleep
handshake_stage2_inquiry ==
  /\ caller = "handshake_with_device"
  /\ hs.stage = "sleep50"
  /\ Enter(_dev, inquiry_cdb, EmptyVec, 36, U32Of(HandshakeTag))
  /\ hs' = [HsStart(hs, "inquiry", TRUE) EXCEPT !.stage = "inquiry"]
  /\ ctl' = << ScsiOp(inquiry_cdb, EmptyVec, 36) >>
  /\ UNCHANGED << _dev, caller, ulcd, frameWire, lastFrame, ndirect, nframes,
                  pk, compVars, openHandles, devOp, dr, now >>

\* variant: INQUIRY tested for ok only
Stage2Failed_InquiryOkOnly(stage, res) ==
  IF stage = "inquiry" THEN ~res.ok
  ELSE IF stage = "apix" THEN ~res.ok
  ELSE IF stage = "full" THEN ~res.ok \/ res.data.len = 0
  ELSE ~res.ok

\* does the Stage 2 step that has just returned fail the handshake
Stage2Failed(stage, res) ==
  IF stage = "inquiry" THEN ~res.ok \/ res.data.len = 0
  ELSE IF stage = "apix" THEN ~res.ok
  ELSE IF stage = "full" THEN ~res.ok \/ res.data.len = 0
  ELSE ~res.ok

\* the result of the Stage 2 step that has just returned, as the tests see it
S2Res(h) ==
  [h EXCEPT !.s2res = [step |-> h.stage, ok |-> result.ok, len |-> result.data.len]]

\* Stage 2 after each command: return false on failure, else the next of
\* APIX probe, full read, echo write; after the echo return true
handshake_stage2_next ==
  /\ caller = "handshake_with_device"
  /\ hs.stage \in {"inquiry", "apix", "full", "echo"}
  /\ pc = "done"
  /\ IF Stage2Failed(hs.stage, result)
     THEN /\ HsReturn(S2Res(hs), FALSE)
          /\ UNCHANGED ctl
     ELSE IF hs.stage = "inquiry"
     THEN /\ Enter(_dev, apix_cdb, EmptyVec, 12, U32Of(HandshakeTag))
          /\ hs' = [HsStart(S2Res(hs), "apix", TRUE) EXCEPT !.stage = "apix"]
          /\ ctl' = Append(ctl, ScsiOp(apix_cdb, EmptyVec, 12))
          /\ UNCHANGED caller
     ELSE IF hs.stage = "apix"
     THEN /\ Enter(_dev, f5_cdb, EmptyVec, splash_size, U32Of(HandshakeTag))
          /\ hs' = [HsStart(S2Res(hs), "full", TRUE) EXCEPT !.stage = "full"]
          /\ ctl' = Append(ctl, ScsiOp(f5_cdb, EmptyVec, splash_size))
          /\ UNCHANGED caller
     ELSE IF hs.stage = "full"
     THEN /\ Enter(_dev, f5_cdb, result.data, 0, U32Of(HandshakeTag))
          /\ hs' = [HsStart(S2Res(hs), "echo", TRUE) EXCEPT !.stage = "echo"]
          /\ ctl' = Append(ctl, ScsiOp(f5_cdb, result.data, 0))
          /\ UNCHANGED caller
     ELSE /\ HsReturn(S2Res(hs), TRUE)
          /\ UNCHANGED ctl
  /\ UNCHANGED << _dev, ulcd, frameWire, lastFrame, ndirect, nframes,
                  pk, compVars, openHandles, devOp, dr, now >>

\* the program after start, before or after a successful init_dev
InitHandshake ==
  /\ TAG = U32Of(TagInit)
  /\ \E h \in {NULL, NewHandle({})} :
       /\ _dev = h
       /\ openHandles = {h} \ {NULL}
  /\ caller = "none"
  /\ pc = "idle"
  /\ call = NoCall
  /\ cbw = <<>>
  /\ data_in = EmptyVec
  /\ csw = <<>>
  /\ result = NoResult
  /\ wire = <<>>
  /\ lastAuto = [valid |-> FALSE, tag |-> Zero32]
  /\ ulcd = NoUlcd
  /\ frameWire = <<>>
  /\ lastFrame = NoFrame
  /\ ndirect = 0
  /\ nframes = 0
  /\ pk = NoPk
  /\ devOp = NoDevOp
  /\ dr = NoDr
  /\ hs = NoHs
  /\ now = 0
  /\ ctl = << >>
  /\ fs = NoFs
  /\ bg_manager = NoBgManager
  /\ video_bg = NoVideo
  /\ poller = NoPoller

NextHandshake ==
  \/ handshake_with_device
  \/ handshake_stage1_loop
  \/ handshake_stage1_tur
  \/ handshake_stage1_sense
  \/ handshake_stage1_mode
  \/ handshake_stage1_sense2
  \/ handshake_check
  \/ handshake_stage2_inquiry
  \/ handshake_stage2_next
  \/ WriteCBW
  \/ DataIn
  \/ ReadCSW
  \/ Tick

\* one handshake on the device init_dev has opened, with the clock running
SpecHandshake == InitHandshake /\ [][NextHandshake]_vars

(* ---------------- ImageConverter ---------------- *)
RECURSIVE BitAnd(_, _)
\* a & b on naturals
BitAnd(a, b) ==
  IF a = 0 \/ b = 0 THEN 0
  ELSE (a % 2) * (b % 2) + 2 * BitAnd(a \div 2, b \div 2)

RECURSIVE BitOr(_, _)
\* a | b on naturals
BitOr(a, b) ==
  IF a = 0 THEN b
  ELSE IF b = 0 THEN a
  ELSE (IF a % 2 = 1 \/ b % 2 = 1 THEN 1 ELSE 0) + 2 * BitOr(a \div 2, b \div 2)

\* a << n and a >> n
Shl(a, n) == a * 2 ^ n
Shr(a, n) == a \div 2 ^ n

\* variant: green masked with 0xF8
rgb_to_rgb565_Green5(r, g, b) ==
  BitOr(BitOr(Shl(BitAnd(r, 248), 8), Shl(BitAnd(g, 248), 3)), Shr(b, 3)) % W16

\* ((r & 0xF8) << 8) | ((g & 0xFC) << 3) | (b >> 3), as uint16_t
rgb_to_rgb565(r, g, b) ==
  BitOr(BitOr(Shl(BitAnd(r, 248), 8), Shl(BitAnd(g, 252), 3)), Shr(b, 3)) % W16

\* the input buffers: a solid red frame, and a frame whose pixels differ from
\* their neighbours with (8, 16, 24) at row 0 column 0
Images == {"red", "corner"}

\* the pixel of buffer img at column x, row y
Pixel(img, x, y) ==
  IF img = "red" THEN << 255, 0, 0 >>
  ELSE IF x = 0 /\ y = 0 THEN << 8, 16, 24 >>
  ELSE << (x + 3 * y) % 256, (5 * x + y + 1) % 256, (x * y + 7 * x + 11 * y + 2) % 256 >>

\* rgb[k]: the buffer is row-major, three bytes per pixel
ImageByte(img, k) ==
  Pixel(img, (k \div 3) % WIDTH, (k \div 3) \div WIDTH)[(k % 3) + 1]

\* variant: only the low byte pushed
PushPixel_LowOnly(size) == size + 1

\* chunk.push_back(low byte); chunk.push_back(high byte): the chunk's new size
PushPixel(size) == size + 2

\* variant: rows taken top to bottom
FlippedRow_NoFlip(row) == row

\* int flipped = HEIGHT - 1 - row
FlippedRow(row) == HEIGHT - 1 - row

\* int idx = (flipped * WIDTH + ac) * 3
PixelIndex(flipped, ac) == (flipped * WIDTH + ac) * 3

\* variant: start never advanced
NextStart_Stuck(start, w) == start

\* start += w
NextStart(start, w) == start + w

\* the call: three empty chunks, start = 0, loops at their first iteration
image_to_rgb565_chunks_call ==
  /\ caller = "none"
  /\ pk.state \in {"idle", "done"}
  /\ \E img \in Images :
       pk' = [state |-> "loop", img |-> img, i |-> 0, col |-> 0, row |-> 0,
              start |-> 0, sizes |-> << 0, 0, 0 >>, last |-> NoEmit]
  /\ UNCHANGED << TAG, _dev, caller, pc, call, cbw, data_in, csw, result, wire,
                  lastAuto, ulcd, frameWire, lastFrame, ndirect, nframes >>
  /\ UNCHANGED << openHandles, devOp, dr, hs, now, ctl, compVars >>

\* one iteration of the innermost loop, and the loop heads that follow it
image_to_rgb565_chunks_pixel ==
  /\ pk.state = "loop"
  /\ LET w == chunk_widths[pk.i + 1]
         ac == pk.start + pk.col
         flipped == FlippedRow(pk.row)
         idx == PixelIndex(flipped, ac)
         r == ImageByte(pk.img, idx)
         g == ImageByte(pk.img, idx + 1)
         b == ImageByte(pk.img, idx + 2)
         pix == rgb_to_rgb565(r, g, b)
         emit == [chunk |-> pk.i, offset |-> pk.sizes[pk.i + 1],
                  lo |-> BitAnd(pix, 255), hi |-> Shr(pix, 8), idx |-> idx,
                  valid |-> TRUE]
         sizes == [pk.sizes EXCEPT ![pk.i + 1] = PushPixel(@)]
     IN  pk' = IF pk.row + 1 < HEIGHT
               THEN [pk EXCEPT !.row = pk.row + 1, !.sizes = sizes, !.last = emit]
               ELSE IF pk.col + 1 < w
               THEN [pk EXCEPT !.row = 0, !.col = pk.col + 1, !.sizes = sizes,
                               !.last = emit]
               ELSE [pk EXCEPT !.row = 0, !.col = 0, !.i = pk.i + 1,
                               !.start = NextStart(pk.start, w),
                               !.sizes = sizes, !.last = emit,
                               !.state = IF pk.i + 1 < Len(chunk_widths)
                                         THEN "loop" ELSE "done"]
  /\ UNCHANGED << TAG, _dev, caller, pc, call, cbw, data_in, csw, result, wire,
                  lastAuto, ulcd, frameWire, lastFrame, ndirect, nframes >>
  /\ UNCHANGED << openHandles, devOp, dr, hs, now, ctl, compVars >>

InitPack == Init /\ TAG = U32Of(TagInit)

NextPack ==
  \/ image_to_rgb565_chunks_call
  \/ image_to_rgb565_chunks_pixel

\* the packer alone, on each input buffer
SpecPack == InitPack /\ [][NextPack]_vars

(* ---------------- VideoBackground ---------------- *)
\* what cv::VideoCapture finds at a path: whether it opens, CAP_PROP_FRAME_COUNT,
\* CAP_PROP_FPS in thousandths of a frame per second, and how many frames
\* cap.read delivers before it fails
FrameCounts == {0, 240, 241, 299, 300, 10000, 10001}
FpsValues == {0, 24000, 29970, 1000000}
VideoFiles == [opened : BOOLEAN, total_frames : FrameCounts, fps : FpsValues,
               nread : 0 .. MaxVideoFrames]
Modes == {"loop", "bounce"}
DefaultFps == 24

\* a frame of the video, resized to 320x240: 8-bit BGR
VideoFrame(path, k) ==
  [empty |-> FALSE, channels |-> 3, depth |-> 1,
   content |-> [src |-> "video", path |-> path, ver |-> k]]

\* variant: a clip of exactly ten seconds is streamed
DurationOver10_Inclusive(total_frames, fps) ==
  fps > 0 /\ total_frames * 1000 >= 10 * fps

\* double duration_sec = (fps > 0) ? total_frames / fps : 0;  duration_sec > 10.0
DurationOver10(total_frames, fps) ==
  fps > 0 /\ total_frames * 1000 > 10 * fps

\* the constructor: the member initialisers, then _init()
VideoBackgroundNew(path, mode, target_fps, file) ==
  LET v0 == [NoVideo EXCEPT !.exists = TRUE, !.path = path, !.mode = mode,
                            !._fps = target_fps, !.file = file]
  IN  IF ~file.opened
      THEN v0
      ELSE IF DurationOver10(file.total_frames, file.fps)
      THEN [v0 EXCEPT !._streaming = TRUE, !.cap = TRUE,
                      !._fps = IF file.fps > 0 THEN file.fps \div 1000 ELSE @]
      ELSE [v0 EXCEPT !._frames = file.nread, !._streaming = FALSE]

\* start_playback(): the worker is started once, and only if there is
\* something to play.  _thread is "none" (not joinable), "running" (the worker
\* is in _play_loop) or "finished" (_play_loop has returned, not yet joined)
StartPlayback(v) ==
  IF v._playing \/ (~v._streaming /\ v._frames = 0)
  THEN v
  ELSE [v EXCEPT !._playing = TRUE, !._thread = "running", !.stopped = FALSE]

\* variant: stop() joins without clearing the flag
StopRequest_NoFlag(v) == [v EXCEPT !.stopping = TRUE]

\* stop() up to the join: _playing = false
StopRequest(v) == [v EXCEPT !._playing = FALSE, !.stopping = TRUE]

\* stop() from the join on: the worker has been joined if there was one, a
\* streaming capture is released, the call returns
StopJoined(v) ==
  [v EXCEPT !._thread = "none", !.cap = IF v._streaming THEN FALSE ELSE @,
            !.stopping = FALSE, !.stopped = TRUE]

\* stop() as one step: the worker leaves its loop at the cleared flag and is
\* joined
StopPlayback(v) == StopJoined(StopRequest(v))

\* the live worker threads of an object
Workers(v) == IF v.exists /\ v._thread = "running" THEN 1 ELSE 0

\* get_current_frame(); _frames[_frame_index] past the end of the vector is
\* whatever memory holds there
FrameRead(v) ==
  IF v._streaming THEN {v._current_frame}
  ELSE IF v._frames > 0
  THEN IF v._frame_index < v._frames
       THEN {VideoFrame(v.path, v._frame_index)}
       ELSE {EmptyMat, [empty |-> FALSE, channels |-> 3, depth |-> 1,
                        content |-> [src |-> "garbage", path |-> v.path,
                                     ver |-> v._frame_index]]}
  ELSE {EmptyMat}

\* variant: the index stops at the last frame
LoopStep_Saturate(idx, n) == IF idx + 1 < n THEN idx + 1 ELSE idx

\* _frame_index = (_frame_index + 1) % _frames.size()
LoopStep(idx, n) == (idx + 1) % n

\* variant: the direction is reversed one frame early
BounceStep_Early(idx, forward, n) ==
  IF forward
  THEN [idx |-> idx + 1, forward |-> ~(idx + 1 >= n - 2)]
  ELSE LET i == IF idx > 0 THEN idx - 1 ELSE idx
       IN  [idx |-> i, forward |-> (i <= 0)]

\* the bounce branch; _frames.size() - 1 is a size_t and n >= 1 here
BounceStep(idx, forward, n) ==
  IF forward
  THEN [idx |-> idx + 1, forward |-> ~(idx + 1 >= n - 1)]
  ELSE LET i == IF idx > 0 THEN idx - 1 ELSE idx
       IN  [idx |-> i, forward |-> (i <= 0)]

\* VideoBackground(path, mode, target_fps) on a file
VideoBackground ==
  /\ ~video_bg.exists
  /\ \E file \in VideoFiles, mode \in Modes :
       video_bg' = VideoBackgroundNew("v.mp4", mode, DefaultFps, file)
  /\ UNCHANGED << TAG, _dev, caller, pc, call, cbw, data_in, csw, result, wire,
                  lastAuto, ulcd, frameWire, lastFrame, ndirect, nframes,
                  pk, openHandles, devOp, dr, hs, now, ctl >>
  /\ UNCHANGED << fs, bg_manager, poller >>

start_playback ==
  /\ video_bg.exists
  /\ ~video_bg.stopping
  /\ video_bg' = StartPlayback(video_bg)
  /\ UNCHANGED << TAG, _dev, caller, pc, call, cbw, data_in, csw, result, wire,
                  lastAuto, ulcd, frameWire, lastFrame, ndirect, nframes,
                  pk, openHandles, devOp, dr, hs, now, ctl >>
  /\ UNCHANGED << fs, bg_manager, poller >>

stop ==
  /\ video_bg.exists
  /\ ~video_bg.stopping
  /\ video_bg' = StopPlayback(video_bg)
  /\ UNCHANGED << TAG, _dev, caller, pc, call, cbw, data_in, csw, result, wire,
                  lastAuto, ulcd, frameWire, lastFrame, ndirect, nframes,
                  pk, openHandles, devOp, dr, hs, now, ctl >>
  /\ UNCHANGED << fs, bg_manager, poller >>

\* one iteration of the worker's loop over the preloaded frames
_preloaded_loop ==
  /\ video_bg.exists /\ video_bg._playing /\ ~video_bg._streaming
  /\ video_bg._thread = "running"
  /\ video_bg._frames > 0
  /\ video_bg.ticks < MaxTicks
  /\ video_bg' =
       IF video_bg.mode = "loop"
       THEN [video_bg EXCEPT !._frame_index = LoopStep(@, video_bg._frames),
                             !.ticks = @ + 1]
       ELSE IF video_bg.mode = "bounce"
       THEN LET b == BounceStep(video_bg._frame_index, video_bg._forward,
                                video_bg._frames)
            IN  [video_bg EXCEPT !._frame_index = b.idx, !._forward = b.forward,
                                 !.ticks = @ + 1]
       ELSE [video_bg EXCEPT !.ticks = @ + 1]
  /\ UNCHANGED << TAG, _dev, caller, pc, call, cbw, data_in, csw, result, wire,
                  lastAuto, ulcd, frameWire, lastFrame, ndirect, nframes,
                  pk, openHandles, devOp, dr, hs, now, ctl >>
  /\ UNCHANGED << fs, bg_manager, poller >>

\* one iteration of the worker's loop over the capture: a frame that was read
\* becomes the current frame, a failed read rewinds the capture
_stream_loop ==
  /\ video_bg.exists /\ video_bg._playing /\ video_bg._streaming
  /\ video_bg._thread = "running"
  /\ video_bg.ticks < MaxTicks
  /\ \E read \in (IF video_bg.cap THEN BOOLEAN ELSE {FALSE}) :
       video_bg' =
         IF read
         THEN [video_bg EXCEPT !._current_frame = VideoFrame(video_bg.path, 0),
                               !.ticks = @ + 1]
         ELSE [video_bg EXCEPT !.ticks = @ + 1]
  /\ UNCHANGED << TAG, _dev, caller, pc, call, cbw, data_in, csw, result, wire,
                  lastAuto, ulcd, frameWire, lastFrame, ndirect, nframes,
                  pk, openHandles, devOp, dr, hs, now, ctl >>
  /\ UNCHANGED << fs, bg_manager, poller >>

InitVideo == Init /\ TAG = U32Of(TagInit)

NextVideo ==
  \/ VideoBackground
  \/ start_playback
  \/ stop
  \/ _preloaded_loop
  \/ _stream_loop

\* one VideoBackground object, its owner's calls and its worker
SpecVideo == InitVideo /\ [][NextVideo]_vars

(* ---------------- BackgroundManager ---------------- *)
\* what a file at an image path is: absent, not an image, or an image of
\* some channel count and depth; the 32-bit signed one is an image cv::imread
\* decodes and cv::resize has no kernel for
ImageKinds == {"missing", "undecodable", "gray8", "bgr8", "bgra8", "bgr16",
               "bgra32s"}
KindChannels == [gray8 |-> 1, bgr8 |-> 3, bgra8 |-> 4, bgr16 |-> 3, bgra32s |-> 4]
KindDepth == [gray8 |-> 1, bgr8 |-> 1, bgra8 |-> 1, bgr16 |-> 2, bgra32s |-> 4]

\* the video files of the run, by path, and the lower-cased extension of each
VideoPaths == {"v.mp4", "w.MKV", "v.gif", "long.avi"}
VideoFileAt ==
  [p \in VideoPaths |->
     IF p = "v.mp4" THEN [opened |-> TRUE, total_frames |-> 240, fps |-> 24000,
                          nread |-> 2]
     ELSE IF p = "v.gif" THEN [opened |-> TRUE, total_frames |-> 240,
                               fps |-> 24000, nread |-> 2]
     ELSE IF p = "long.avi" THEN [opened |-> TRUE, total_frames |-> 10001,
                                  fps |-> 24000, nread |-> 0]
     ELSE NoVideoFile]
LowerExt ==
  [p \in VideoPaths |->
     IF p = "v.mp4" THEN ".mp4" ELSE IF p = "w.MKV" THEN ".mkv"
     ELSE IF p = "v.gif" THEN ".gif" ELSE ".avi"]
VideoExts == {".mp4", ".avi", ".mov", ".mkv"}

\* std::filesystem::exists(path)
FileExists(path) == fs[path].kind # "missing"

\* cv::imread(path, cv::IMREAD_UNCHANGED)
imread(path) ==
  IF fs[path].kind \in {"missing", "undecodable"}
  THEN EmptyMat
  ELSE [empty |-> FALSE, channels |-> KindChannels[fs[path].kind],
        depth |-> KindDepth[fs[path].kind],
        content |-> [src |-> "file", path |-> path, ver |-> fs[path].mtime]]

\* cv::resize(img, img, cv::Size(320, 240)) throws on a depth it does not handle
ResizeThrows(img) == img.depth = 4

\* variant: the modification time is not part of the key
CacheMiss_PathOnly(m, background_path, current_mtime) ==
  \/ m.static_bg.empty
  \/ m.static_bg_path # background_path

\* static_bg.empty() || static_bg_path != background_path ||
\* static_bg_mtime != current_mtime
CacheMiss(m, background_path, current_mtime) ==
  \/ m.static_bg.empty
  \/ m.static_bg_path # background_path
  \/ m.static_bg_mtime # current_mtime

\* load_static_background(background_path) on the members m: the members
\* after the call, the image returned, and whether the file was decoded
load_static_background(m, background_path) ==
  IF background_path = "" \/ ~FileExists(background_path)
  THEN [m |-> m, ret |-> EmptyMat, decoded |-> FALSE, hit |-> FALSE]
  ELSE LET current_mtime == fs[background_path].mtime
       IN  IF CacheMiss(m, background_path, current_mtime)
           THEN LET img == imread(background_path)
                    m1 == [m EXCEPT !.has_alpha = (img.channels = 4)]
                    m2 == [m1 EXCEPT !.static_bg = img,
                                     !.static_bg_path = background_path,
                                     !.static_bg_mtime = current_mtime]
                IN  IF img.empty
                    THEN [m |-> m, ret |-> EmptyMat, decoded |-> TRUE,
                          hit |-> FALSE]
                    ELSE IF ResizeThrows(img)
                    THEN [m |-> m1, ret |-> EmptyMat, decoded |-> TRUE,
                          hit |-> FALSE]
                    ELSE [m |-> m2, ret |-> m2.static_bg, decoded |-> TRUE,
                          hit |-> FALSE]
           ELSE [m |-> m, ret |-> m.static_bg, decoded |-> FALSE, hit |-> TRUE]

\* the 240x320 CV_8UC3 gradient
Gradient ==
  [empty |-> FALSE, channels |-> 3, depth |-> 1,
   content |-> [src |-> "gradient", path |-> "", ver |-> 0]]

\* step 2 of get_background: is the VideoBackground replaced
Replaces(v, video_path) ==
  /\ video_path # ""
  /\ LowerExt[video_path] \in VideoExts
  /\ ~v.exists \/ v.path # video_path

\* variant: the old object is not stopped before the new one is made
OldAtConstruct_NoStop(v) == v

\* if (video_bg) video_bg->stop(): the old object when make_unique runs
OldAtConstruct(v) == IF v.exists THEN StopPlayback(v) ELSE v

\* the unique_ptr assignment destroys the old object: ~VideoBackground() { stop(); }
OldDestroyed(v) == IF v.exists THEN StopPlayback(v) ELSE v

\* step 2 of get_background: the VideoBackground after the call
EnsureVideo(v, video_path) ==
  IF Replaces(v, video_path)
  THEN StartPlayback(VideoBackgroundNew(video_path, "loop", DefaultFps,
                                        VideoFileAt[video_path]))
  ELSE v

\* the frames step 2 can get: none unless the path has a video extension
VidOf(v, video_path) ==
  IF video_path # "" /\ LowerExt[video_path] \in VideoExts
  THEN FrameRead(v)
  ELSE {EmptyMat}

\* compose_with_video(img, vid): 8-bit BGRA, alpha 255
Blend(img, vid) ==
  [empty |-> FALSE, channels |-> 4, depth |-> 1,
   content |-> [src |-> "blend", path |-> img.content.path,
                ver |-> img.content.ver]]

\* steps 3 to 6 of get_background: which source is returned
SourceOf(img, vid, has_alpha) ==
  IF ~img.empty /\ ~vid.empty
  THEN IF has_alpha THEN "blend" ELSE "image"
  ELSE IF ~vid.empty THEN "video"
  ELSE IF ~img.empty THEN "image"
  ELSE "gradient"

\* the cv::Mat get_background returns for a source
BgOf(source, img, vid) ==
  IF source = "blend" THEN Blend(img, vid)
  ELSE IF source = "image" THEN img
  ELSE IF source = "video" THEN vid
  ELSE Gradient

\* what get_background_bytes makes of the returned cv::Mat: an empty vector,
\* the bytes of the RGB image cv::cvtColor(bg, COLOR_BGRA2RGB) gives for a
\* 3- or 4-channel source, or the exception cvtColor throws for any other.
\* channels[3] of a 3-channel image in compose_with_video is a read past the
\* end of a vector
Outcomes(source, img, bg) ==
  IF source = "blend" /\ img.channels # 4
  THEN {[outcome |-> "crash", size |-> 0], [outcome |-> "exception", size |-> 0],
        [outcome |-> "bytes", size |-> WIDTH * HEIGHT * 3]}
  ELSE IF bg.empty THEN {[outcome |-> "empty", size |-> 0]}
  ELSE IF bg.channels \in {3, 4}
  THEN {[outcome |-> "bytes", size |-> WIDTH * HEIGHT * 3 * bg.depth]}
  ELSE {[outcome |-> "exception", size |-> 0]}

\* get_background_bytes(video_path, image_path)
get_background_bytes ==
  /\ bg_manager.ncalls < MaxBgCalls
  /\ bg_manager.last.outcome # "crash"
  /\ \E video_path \in VideoPaths \cup {""}, image_path \in ImagePaths \cup {""} :
       LET l == IF image_path # ""
                THEN load_static_background(bg_manager, image_path)
                ELSE [m |-> bg_manager, ret |-> EmptyMat, decoded |-> FALSE,
                      hit |-> FALSE]
           v == EnsureVideo(video_bg, video_path)
           replaced == Replaces(video_bg, video_path)
           old == OldAtConstruct(video_bg)
       IN  \E vid \in VidOf(v, video_path) :
             LET source == SourceOf(l.ret, vid, l.m.has_alpha)
                 bg == BgOf(source, l.ret, vid)
             IN  \E o \in Outcomes(source, l.ret, bg) :
                   /\ bg_manager' =
                        [l.m EXCEPT
                           !.default_bg = IF source = "gradient" THEN Gradient ELSE @,
                           !.ncalls = @ + 1,
                           !.last = [valid |-> TRUE, video_path |-> video_path,
                                     image_path |-> image_path, img |-> l.ret,
                                     vid |-> vid, bg |-> bg, source |-> source,
                                     decoded |-> l.decoded, hit |-> l.hit,
                                     outcome |-> o.outcome, size |-> o.size,
                                     replaced |-> replaced,
                                     workers_before |-> Workers(video_bg),
                                     workers_at_new |->
                                       IF replaced THEN Workers(old) ELSE 0,
                                     workers_after |->
                                       Workers(v) + (IF replaced
                                                     THEN Workers(OldDestroyed(old))
                                                     ELSE 0)]]
                   /\ video_bg' = v
  /\ UNCHANGED << TAG, _dev, caller, pc, call, cbw, data_in, csw, result, wire,
                  lastAuto, ulcd, frameWire, lastFrame, ndirect, nframes,
                  pk, openHandles, devOp, dr, hs, now, ctl >>
  /\ UNCHANGED << fs, poller >>

\* the environment: a file at an image path is written, replaced or removed
write_file ==
  /\ bg_manager.nwrites < MaxWrites
  /\ \E p \in ImagePaths, k \in ImageKinds :
       /\ fs[p].mtime < MaxMtime
       /\ fs' = [fs EXCEPT ![p] = [kind |-> k, mtime |-> fs[p].mtime + 1]]
  /\ bg_manager' = [bg_manager EXCEPT !.nwrites = @ + 1]
  /\ UNCHANGED << TAG, _dev, caller, pc, call, cbw, data_in, csw, result, wire,
                  lastAuto, ulcd, frameWire, lastFrame, ndirect, nframes,
                  pk, openHandles, devOp, dr, hs, now, ctl >>
  /\ UNCHANGED << video_bg, poller >>

InitBackground == Init /\ TAG = U32Of(TagInit)

NextBackground ==
  \/ write_file
  \/ get_background_bytes
  \/ _preloaded_loop
  \/ _stream_loop

\* the background manager, the files its paths name and its video worker
SpecBackground == InitBackground /\ [][NextBackground]_vars

(* ---------------- SystemInfoPoller ---------------- *)
FastKeys == {"cpu_percent", "cpu_temp", "cpu_freq", "gpu_temp", "gpu_usage",
             "gpu_clock", "gpu_fan"}
SlowKeys == {"cpu_count", "disk_percent", "disk_free_gb", "mem_percent",
             "mem_used_gb"}

\* readings of the probes: get_cpu_percent, get_cpu_temperature (14.9, 15.1,
\* 99.9 and 100.0 degrees, and 0 when no sensor is read), get_cpu_frequency,
\* hardware_concurrency, get_disk_info and get_memory_info
PercentSamples == {0, 50}
TempSamples == {0, 149, 151, 999, 1000}
FreqSamples == {3000}
CountSamples == {8}
PairSamples == {<< 0, 0 >>, << 40, 100 >>}
GpuKinds == {"none", "amd", "intel"}

\* get_gpu_stats(): the vector of the first GPU kind available, or the
\* default vector (the machines explored have no NVIDIA GPU)
GpuStats ==
  [none |-> << 0, 0, 0, 0 >>, amd |-> << 45, -1, 500, 1200 >>,
   intel |-> << 0, 0, 300 >>, nvidia |-> << 60, 20, 1500, 30 >>]

\* out[k] = v
Put(out, k, v) ==
  [x \in (DOMAIN out) \cup {k} |-> IF x = k THEN v ELSE out[x]]
PutIf(cond, out, k, v) == IF cond THEN Put(out, k, v) ELSE out

\* cputemp > 15 && cputemp < 100
TempSane(cputemp) == cputemp > 150 /\ cputemp < 1000

\* detection: cputemp > 0 && cputemp < 101
TempDetected(cputemp) == cputemp > 0 /\ cputemp < 1010

\* the GPU block of _poll_fast
GpuOut(out, g) ==
  IF g.throws THEN out
  ELSE LET o0 == PutIf(g.v[1] > 0 /\ g.v[1] < 101, out, "gpu_temp", g.v[1])
           o1 == PutIf(g.v[2] > -1, o0, "gpu_usage", g.v[2])
           o2 == PutIf(g.v[3] > 0, o1, "gpu_clock", g.v[3])
       IN  PutIf(Len(g.v) > 3 /\ g.v[IF Len(g.v) > 3 THEN 4 ELSE 1] > -1,
                 o2, "gpu_fan", g.v[IF Len(g.v) > 3 THEN 4 ELSE 1])

\* _poll_fast(): each sample in its own try block
_poll_fast(s) ==
  LET o0 == PutIf(~s.percent.throws /\ s.percent.v > 0 /\ s.percent.v < 101,
                  EmptyMap, "cpu_percent", s.percent.v)
      o1 == PutIf(~s.cputemp.throws /\ TempSane(s.cputemp.v),
                  o0, "cpu_temp", s.cputemp.v)
      o2 == PutIf(~s.cpufreq.throws /\ s.cpufreq.v > 0,
                  o1, "cpu_freq", s.cpufreq.v)
  IN  GpuOut(o2, s.gpu)

\* _poll_slow()
_poll_slow(s) ==
  LET o0 == Put(EmptyMap, "cpu_count", s.count.v)
      o1 == IF s.disk.throws THEN o0
            ELSE PutIf(s.disk.v[2] > 0,
                       PutIf(s.disk.v[1] > 0, o0, "disk_percent", s.disk.v[1]),
                       "disk_free_gb", s.disk.v[2])
  IN  IF s.mem.throws THEN o1
      ELSE PutIf(s.mem.v[2] > 0,
                 PutIf(s.mem.v[1] > 0, o1, "mem_percent", s.mem.v[1]),
                 "mem_used_gb", s.mem.v[2])

\* variant: the snapshot is replaced by the batch
_merge_info_Replace(info, updated) ==
  IF DOMAIN updated = {} THEN info ELSE updated

\* _merge_info(updated): info[kv.first] = kv.second for each pair
_merge_info(info, updated) ==
  IF DOMAIN updated = {}
  THEN info
  ELSE [k \in (DOMAIN info) \cup (DOMAIN updated) |->
          IF k \in DOMAIN updated THEN updated[k] ELSE info[k]]

\* detect_available_metrics() on the readings d of a machine
detect_available_metrics(d) ==
  {k \in FastKeys \cup SlowKeys :
     \/ k = "cpu_percent" /\ d.percent > 0
     \/ k = "cpu_count" /\ d.count > 0
     \/ k = "cpu_freq" /\ d.cpufreq > 0
     \/ k = "cpu_temp" /\ d.hwmon /\ TempDetected(d.cputemp)
     \/ k = "mem_percent" /\ d.mem[1] > 0
     \/ k = "mem_used_gb" /\ d.mem[2] > 0
     \/ k = "disk_percent" /\ d.disk[1] > 0
     \/ k = "disk_free_gb" /\ d.disk[2] > 0
     \/ /\ d.gpu = "amd"
        /\ \/ k = "gpu_temp" /\ GpuStats.amd[1] > 0 /\ GpuStats.amd[1] < 101
           \/ k = "gpu_usage" /\ GpuStats.amd[2] > -1
           \/ k = "gpu_clock" /\ GpuStats.amd[3] > -1
           \/ k = "gpu_fan" /\ GpuStats.amd[4] > -1
     \/ d.gpu = "intel" /\ k \in {"gpu_temp", "gpu_usage", "gpu_clock"}
     \/ d.gpu = "nvidia" /\ k \in {"gpu_temp", "gpu_usage", "gpu_clock", "gpu_fan"}}

\* the machines: which GPU there is, whether /sys/class/hwmon exists, and
\* the readings detection takes
Machines ==
  [gpu : GpuKinds, hwmon : BOOLEAN, percent : PercentSamples,
   count : CountSamples, cpufreq : FreqSamples, cputemp : TempSamples,
   mem : {<< 40, 100 >>}, disk : {<< 40, 100 >>}]

\* the samples one batch can take on a machine
FastSamples(d) ==
  [percent : {Val(x) : x \in PercentSamples},
   cputemp : IF d.hwmon THEN {Thrown} \cup {Val(x) : x \in TempSamples \ {0}}
             ELSE {Val(0)},
   cpufreq : {Val(x) : x \in FreqSamples},
   gpu : {ThrownStats, [throws |-> FALSE, v |-> GpuStats[d.gpu]]}]
SlowSamples ==
  [count : {Val(x) : x \in CountSamples},
   disk : {[throws |-> TRUE, v |-> << 0, 0 >>],
           [throws |-> FALSE, v |-> << 40, 100 >>]},
   mem : {[throws |-> FALSE, v |-> x] : x \in PairSamples}]
\* SystemInfoPoller(): the snapshot gets a 0.0 for every detected metric
SystemInfoPoller ==
  /\ ~poller.exists
  /\ \E d \in Machines :
       /\ ~d.hwmon => d.cputemp = 0
       /\ poller' = [poller EXCEPT
                       !.exists = TRUE, !.machine = d,
                       !.detected = detect_available_metrics(d),
                       !.info = [k \in detect_available_metrics(d) |-> 0]]
  /\ UNCHANGED << TAG, _dev, caller, pc, call, cbw, data_in, csw, result, wire,
                  lastAuto, ulcd, frameWire, lastFrame, ndirect, nframes,
                  pk, openHandles, devOp, dr, hs, now, ctl >>
  /\ UNCHANGED << fs, bg_manager, video_bg >>

\* variant: start() without the test of _running
StartPoller_NoGuard(p) ==
  [p EXCEPT !._running = TRUE, !._thread = "running", !.live = @ + 1,
            !.stopped = FALSE, !.next_fast = 0, !.next_slow = 0,
            !.last_fast = -1, !.last_slow = -1,
            !.mono_fast = TRUE, !.mono_slow = TRUE,
            !.started = IF p._running THEN @ ELSE FALSE,
            !.sched = IF p._running THEN @ ELSE NoSched]

\* start(): if (_running) return; else the flag is set and the worker thread
\* made, which enters _poll_loop with next_fast = next_slow = 0
StartPoller(p) ==
  IF p._running
  THEN p
  ELSE [p EXCEPT !._running = TRUE, !._thread = "running", !.live = @ + 1,
                 !.stopped = FALSE, !.next_fast = 0, !.next_slow = 0,
                 !.last_fast = -1, !.last_slow = -1,
                 !.mono_fast = TRUE, !.mono_slow = TRUE, !.started = FALSE,
                 !.sched = NoSched]

\* stop() up to the join: _running = false
PollerStopRequest(p) == [p EXCEPT !._running = FALSE, !.owner = "stop"]

\* stop() from the join on: the worker has been joined if there was one
PollerStopJoined(p) ==
  [p EXCEPT !._thread = "none", !.live = 0, !.owner = "idle",
            !.stopped = TRUE, !.started = FALSE]

\* start(): the worker is started unless it runs
SystemInfoPoller_start ==
  /\ poller.exists
  /\ poller.owner = "idle"
  /\ poller' = StartPoller(poller)
  /\ UNCHANGED << TAG, _dev, caller, pc, call, cbw, data_in, csw, result, wire,
                  lastAuto, ulcd, frameWire, lastFrame, ndirect, nframes,
                  pk, openHandles, devOp, dr, hs, now, ctl >>
  /\ UNCHANGED << fs, bg_manager, video_bg >>

\* stop(): the flag is cleared and the worker joined
SystemInfoPoller_stop ==
  /\ poller.exists
  /\ poller.owner = "idle"
  /\ poller' = PollerStopJoined(PollerStopRequest(poller))
  /\ UNCHANGED << TAG, _dev, caller, pc, call, cbw, data_in, csw, result, wire,
                  lastAuto, ulcd, frameWire, lastFrame, ndirect, nframes,
                  pk, openHandles, devOp, dr, hs, now, ctl >>
  /\ UNCHANGED << fs, bg_manager, video_bg >>

\* one iteration of _poll_loop: the fast batch if its deadline has passed,
\* then the slow batch if its deadline has passed; both have in the first
\* iteration of a worker, where next_fast = next_slow = 0
_poll_loop ==
  /\ poller.exists /\ poller._running
  /\ poller._thread = "running"
  /\ poller.npolls < MaxPolls
  /\ \E fast \in (IF poller.started THEN BOOLEAN ELSE {TRUE}),
        slow \in (IF poller.started THEN BOOLEAN ELSE {TRUE}) :
       \E f \in (IF fast THEN FastSamples(poller.machine) ELSE {NoFast}),
          s \in (IF slow THEN SlowSamples ELSE {NoSlow}) :
         LET fast_out == IF fast THEN _poll_fast(f) ELSE EmptyMap
             slow_out == IF slow THEN _poll_slow(s) ELSE EmptyMap
             info1 == _merge_info(poller.info, fast_out)
             info2 == _merge_info(info1, slow_out)
         IN  poller' = [poller EXCEPT
                          !.info = info2, !.started = TRUE, !.npolls = @ + 1,
                          !.last = [valid |-> TRUE, fast |-> fast, slow |-> slow,
                                    f |-> f, s |-> s, fast_out |-> fast_out,
                                    slow_out |-> slow_out,
                                    before |-> poller.info,
                                    running |-> poller._running]]
  /\ UNCHANGED << TAG, _dev, caller, pc, call, cbw, data_in, csw, result, wire,
                  lastAuto, ulcd, frameWire, lastFrame, ndirect, nframes,
                  pk, openHandles, devOp, dr, hs, now, ctl >>
  /\ UNCHANGED << fs, bg_manager, video_bg >>

InitPoller == Init /\ TAG = U32Of(TagInit)

NextPoller ==
  \/ SystemInfoPoller
  \/ SystemInfoPoller_start
  \/ SystemInfoPoller_stop
  \/ _poll_loop

\* one poller on one machine: construction, start, stop and the worker
SpecPoller == InitPoller /\ [][NextPoller]_vars

(* ---------------- the poller's worker, clock and readers ---------------- *)
\* time in units of 50 ms, the sleep of one iteration; the poller of this part
\* is made as SystemInfoPoller(0.1, 0.25)
fast_interval == 2
slow_interval == 5

\* system_clock when the poller is made, the range explored, and what the
\* clock does over one iteration: the sleep alone, a longer iteration, a
\* pause of the process, the clock being set back
ClockStart == 4
MaxClock == 16
MaxBack == 1
ClockSteps == {1, fast_interval, slow_interval, -fast_interval}

OnlyPoller ==
  UNCHANGED << TAG, _dev, caller, pc, call, cbw, data_in, csw, result, wire,
               lastAuto, ulcd, frameWire, lastFrame, ndirect, nframes,
               pk, openHandles, devOp, dr, hs, now, ctl, fs, bg_manager, video_bg >>

\* variant: a batch waits for the clock to pass its deadline
Due_Strict(t, next) == t > next

\* if (now >= next_fast), if (now >= next_slow)
Due(t, next) == t >= next

\* the machine of this part: no GPU, no hwmon, and steady readings
SteadyMachine ==
  [gpu |-> "none", hwmon |-> FALSE, percent |-> 50, count |-> 8,
   cpufreq |-> 3000, cputemp |-> 0, mem |-> << 40, 100 >>,
   disk |-> << 40, 100 >>]
SteadyFast ==
  {f \in FastSamples(SteadyMachine) : f.percent.v = 50 /\ ~f.gpu.throws}
SteadySlow ==
  {x \in SlowSamples : ~x.disk.throws /\ x.mem.v = << 40, 100 >>}

\* one iteration of _poll_loop with the clock: now is read once, the fast
\* batch runs and is merged if due, then the slow batch; a merge needs _lock;
\* then the sleep, over which the clock moves
_poll_loop_clock ==
  /\ poller.exists /\ poller._running
  /\ poller._thread = "running"
  /\ LET t == poller.clock
         fast == Due(t, poller.next_fast)
         slow == Due(t, poller.next_slow)
     IN  /\ (fast \/ slow) => poller.owner # "get_info"
         /\ \E d \in ClockSteps :
              /\ t + d >= 0
              /\ t + d <= MaxClock
              /\ d < 0 => poller.nback < MaxBack
              /\ \E f \in (IF fast THEN SteadyFast ELSE {NoFast}),
                    s \in (IF slow THEN SteadySlow ELSE {NoSlow}) :
                   LET fast_out == IF fast THEN _poll_fast(f) ELSE EmptyMap
                       slow_out == IF slow THEN _poll_slow(s) ELSE EmptyMap
                       info1 == _merge_info(poller.info, fast_out)
                       info2 == _merge_info(info1, slow_out)
                   IN  poller' =
                         [poller EXCEPT
                            !.info = info2, !.started = TRUE, !.clock = t + d,
                            !.nback = IF d < 0 THEN @ + 1 ELSE @,
                            !.next_fast = IF fast THEN t + fast_interval ELSE @,
                            !.next_slow = IF slow THEN t + slow_interval ELSE @,
                            !.last_fast = IF fast THEN t ELSE @,
                            !.last_slow = IF slow THEN t ELSE @,
                            !.mono_fast = IF fast THEN d >= 0 ELSE @ /\ d >= 0,
                            !.mono_slow = IF slow THEN d >= 0 ELSE @ /\ d >= 0,
                            !.raced = @ \/ ((fast \/ slow)
                                            /\ poller.owner = "get_available_metrics"),
                            !.sched =
                              [valid |-> TRUE, first |-> ~poller.started,
                               now |-> t, nf |-> poller.next_fast,
                               ns |-> poller.next_slow, fast |-> fast,
                               slow |-> slow,
                               order |-> (IF fast THEN << "fast" >> ELSE << >>)
                                           \o (IF slow THEN << "slow" >> ELSE << >>),
                               prev_fast |-> poller.last_fast,
                               prev_slow |-> poller.last_slow,
                               mono_fast |-> poller.mono_fast,
                               mono_slow |-> poller.mono_slow]]
  /\ OnlyPoller

\* while (_running) is false: _poll_loop returns and the thread ends
_poll_loop_return ==
  /\ poller.exists /\ ~poller._running
  /\ poller._thread = "running"
  /\ poller' = [poller EXCEPT !._thread = "finished", !.live = @ - 1]
  /\ OnlyPoller

\* stop() is called: the flag is cleared, then the caller waits in join()
SystemInfoPoller_stop_call ==
  /\ poller.exists
  /\ poller.owner = "idle"
  /\ poller' = PollerStopRequest(poller)
  /\ OnlyPoller

\* stop() returns: at once if the thread is not joinable, else when the
\* worker has left _poll_loop
SystemInfoPoller_stop_return ==
  /\ poller.exists
  /\ poller.owner = "stop"
  /\ poller._thread # "running"
  /\ poller' = PollerStopJoined(poller)
  /\ OnlyPoller

\* get_info(): the lock_guard is taken
get_info ==
  /\ poller.exists
  /\ poller.owner = "idle"
  /\ poller' = [poller EXCEPT !.owner = "get_info"]
  /\ OnlyPoller

\* get_info(): the copy is made and the lock_guard released
get_info_return ==
  /\ poller.exists
  /\ poller.owner = "get_info"
  /\ poller' = [poller EXCEPT !.owner = "idle"]
  /\ OnlyPoller

\* get_available_metrics(): the loop over info begins; no lock is taken
get_available_metrics ==
  /\ poller.exists
  /\ poller.owner = "idle"
  /\ poller' = [poller EXCEPT !.owner = "get_available_metrics", !.raced = FALSE]
  /\ OnlyPoller

\* get_available_metrics() returns: the keys, or whatever a loop over an
\* unordered_map gives that another thread wrote to meanwhile
get_available_metrics_return ==
  /\ poller.exists
  /\ poller.owner = "get_available_metrics"
  /\ \E m \in (IF poller.raced THEN {"keys", "torn", "crash"} ELSE {"keys"}) :
       poller' = [poller EXCEPT !.owner = "idle", !.metrics = m]
  /\ OnlyPoller

\* the program with a poller made on the steady machine
InitSched ==
  /\ TAG = U32Of(TagInit)
  /\ _dev = NULL
  /\ caller = "none"
  /\ pc = "idle"
  /\ call = NoCall
  /\ cbw = <<>>
  /\ data_in = EmptyVec
  /\ csw = <<>>
  /\ result = NoResult
  /\ wire = <<>>
  /\ lastAuto = [valid |-> FALSE, tag |-> Zero32]
  /\ ulcd = NoUlcd
  /\ frameWire = <<>>
  /\ lastFrame = NoFrame
  /\ ndirect = 0
  /\ nframes = 0
  /\ pk = NoPk
  /\ openHandles = {}
  /\ devOp = NoDevOp
  /\ dr = NoDr
  /\ hs = NoHs
  /\ now = 0
  /\ ctl = << >>
  /\ fs = NoFs
  /\ bg_manager = NoBgManager
  /\ video_bg = NoVideo
  /\ poller = [NoPoller EXCEPT
                 !.exists = TRUE, !.machine = SteadyMachine,
                 !.detected = detect_available_metrics(SteadyMachine),
                 !.info = [k \in detect_available_metrics(SteadyMachine) |-> 0],
                 !.clock = ClockStart]

NextSched ==
  \/ SystemInfoPoller_start
  \/ SystemInfoPoller_stop_call
  \/ SystemInfoPoller_stop_return
  \/ _poll_loop_clock
  \/ _poll_loop_return
  \/ get_info
  \/ get_info_return
  \/ get_available_metrics
  \/ get_available_metrics_return

\* the poller's owner, its worker and the clock
SpecSched == InitSched /\ [][NextSched]_vars

(* ---------------- stop() and the two workers ---------------- *)
OnlyVideo ==
  UNCHANGED << TAG, _dev, caller, pc, call, cbw, data_in, csw, result, wire,
               lastAuto, ulcd, frameWire, lastFrame, ndirect, nframes,
               pk, openHandles, devOp, dr, hs, now, ctl, fs, bg_manager, poller >>

\* VideoBackground::stop() is called: the flag is cleared, then the caller
\* waits in join()
VideoBackground_stop_call ==
  /\ video_bg.exists
  /\ ~video_bg.stopping
  /\ video_bg' = StopRequest(video_bg)
  /\ OnlyVideo

\* while (_playing) is false: _stream_loop or _preloaded_loop returns, and
\* with it _play_loop and the thread
_play_loop_return ==
  /\ video_bg.exists /\ ~video_bg._playing
  /\ video_bg._thread = "running"
  /\ video_bg' = [video_bg EXCEPT !._thread = "finished"]
  /\ OnlyVideo

\* VideoBackground::stop() returns: at once if the thread is not joinable,
\* else when the worker has left its loop
VideoBackground_stop_return ==
  /\ video_bg.exists
  /\ video_bg.stopping
  /\ video_bg._thread # "running"
  /\ video_bg' = StopJoined(video_bg)
  /\ OnlyVideo

\* the program with a poller made on the steady machine, late in the range
\* of the clock, and a VideoBackground made on a short clip or on a long one
InitStop ==
  /\ TAG = U32Of(TagInit)
  /\ _dev = NULL
  /\ caller = "none"
  /\ pc = "idle"
  /\ call = NoCall
  /\ cbw = <<>>
  /\ data_in = EmptyVec
  /\ csw = <<>>
  /\ result = NoResult
  /\ wire = <<>>
  /\ lastAuto = [valid |-> FALSE, tag |-> Zero32]
  /\ ulcd = NoUlcd
  /\ frameWire = <<>>
  /\ lastFrame = NoFrame
  /\ ndirect = 0
  /\ nframes = 0
  /\ pk = NoPk
  /\ openHandles = {}
  /\ devOp = NoDevOp
  /\ dr = NoDr
  /\ hs = NoHs
  /\ now = 0
  /\ ctl = << >>
  /\ fs = NoFs
  /\ bg_manager = NoBgManager
  /\ \E path \in {"v.mp4", "long.avi"}, mode \in Modes :
       /\ path = "long.avi" => mode = "loop"
       /\ video_bg = VideoBackgroundNew(path, mode, DefaultFps, VideoFileAt[path])
  /\ poller = [NoPoller EXCEPT
                 !.exists = TRUE, !.machine = SteadyMachine,
                 !.detected = detect_available_metrics(SteadyMachine),
                 !.info = [k \in detect_available_metrics(SteadyMachine) |-> 0],
                 !.clock = MaxClock - fast_interval]

NextStop ==
  \/ SystemInfoPoller_start
  \/ SystemInfoPoller_stop_call
  \/ SystemInfoPoller_stop_return
  \/ _poll_loop_clock
  \/ _poll_loop_return
  \/ start_playback
  \/ VideoBackground_stop_call
  \/ VideoBackground_stop_return
  \/ _preloaded_loop
  \/ _stream_loop
  \/ _play_loop_return

\* a thread that can run does run, and a join returns when its thread has
\* ended
FairStop ==
  /\ WF_vars(_play_loop_return)
  /\ WF_vars(VideoBackground_stop_return)
  /\ WF_vars(_poll_loop_return)
  /\ WF_vars(SystemInfoPoller_stop_return)

\* the owner's start and stop calls and the two workers, scheduled fairly
SpecStop == InitStop /\ [][NextStop]_vars /\ FairStop

Next ==
  \/ init_dev
  \/ cleanup_dev
  \/ send_scsi_command
  \/ WriteCBW
  \/ DataIn
  \/ DataOut
  \/ ReadCSW
  \/ ReturnDirect
  \/ update_lcd_image
  \/ update_lcd_image_loop
  \/ update_lcd_image_check

Spec == Init /\ [][Next]_vars

TypeOK ==
  /\ TAG \in [hi : 0 .. W16 - 1, lo : 0 .. W16 - 1]
  /\ _dev \in {NULL, Wild} \cup HandleIds
  /\ openHandles \subseteq HandleIds
  /\ caller \in {"none", "direct", "update_lcd_image", "crashed", "device_ready",
                 "handshake_with_device"}
  /\ pc \in {"idle", "write_cbw", "data_in", "data_out", "csw", "done"}

(* ======================= properties ======================= *)
XferOk(x) == x.rc = 0 /\ x.transferred = x.len
LastWire == wire[Len(wire)]
CswRead == Len(wire) > 0 /\ LastWire.what = "csw"
Max32 == [hi |-> W16 - 1, lo |-> W16 - 1]

\* C1: a call with data_in_len = n > 0 whose CBW write, n-byte data-in read
\* and CSW read all succeed, with CSW signature "USBS" and status 0, returns
\* ok = true, status = 0 and data = exactly the n bytes read.
C1_SuccessReturnsDataIn ==
  ( /\ pc = "done"
    /\ call.data_in_len > 0
    /\ Len(wire) = 3
    /\ \A i \in 1 .. 3 : XferOk(wire[i])
    /\ SubSeq(wire[3].data, 1, 4) = USBS
    /\ wire[3].data[13] = 0 )
  => /\ result.ok = TRUE
     /\ result.status = 0
     /\ result.data = wire[2].data
     /\ result.data.len = call.data_in_len

\* C2: a bulk transfer error on the CBW write, the data-in read, the data-out
\* write or the CSW read makes the call return ok = false and status = 2.
C2_IoErrorIsPhaseError ==
  (pc = "done" /\ \E i \in 1 .. Len(wire) : wire[i].rc # 0)
  => (result.ok = FALSE /\ result.status = 2)

\* C3: a CSW read of fewer than 13 bytes, or a CSW whose first four bytes are
\* not "USBS", gives ok = false and status = 2 whatever the CSW status byte.
C3_BadCswIsPhaseError ==
  (pc = "done" /\ CswRead
     /\ (LastWire.transferred < 13 \/ SubSeq(LastWire.data, 1, 4) # USBS))
  => (result.ok = FALSE /\ result.status = 2)

C3_Witness ==
  /\ pc = "done" /\ CswRead
  /\ LastWire.rc = 0 /\ LastWire.transferred = 13
  /\ SubSeq(LastWire.data, 1, 4) # USBS
  /\ LastWire.data[13] = 0
  /\ result.ok = FALSE /\ result.status = 2

\* C4: when the call fails on a CSW with a bad signature, the returned data is
\* empty, also for a command whose data-in phase had completed.
C4_BadCswDataEmpty ==
  (pc = "done" /\ CswRead /\ SubSeq(LastWire.data, 1, 4) # USBS)
  => result.data.len = 0

\* C5: the result is ok only if the tag in the received CSW equals the tag
\* written in the CBW.
C5_OkOnlyIfTagEchoed ==
  (pc = "done" /\ result.ok)
  => (CswRead /\ SubSeq(LastWire.data, 5, 8) = SubSeq(wire[1].data, 5, 8))

\* the transfers the call must issue, by shape, in order
ExpectedWire(data_in_len, data_out) ==
  << [what |-> "cbw", ep |-> 2, len |-> 31] >>
  \o (IF data_in_len > 0
      THEN << [what |-> "data_in", ep |-> 129, len |-> data_in_len] >>
      ELSE IF data_out.len > 0
      THEN << [what |-> "data_out", ep |-> 2, len |-> data_out.len] >>
      ELSE << >>)
  \o << [what |-> "csw", ep |-> 129, len |-> 13] >>

XferFailed(x) ==
  IF x.what = "cbw" THEN x.rc # 0 \/ x.transferred # 31 ELSE x.rc # 0

\* C6: the transfers of a call are, in order, one 31-byte CBW write on 0x02,
\* at most one data phase (read of data_in_len on 0x81 if data_in_len > 0,
\* else write of data_out on 0x02 if non-empty), one 13-byte CSW read on 0x81;
\* a failed CBW write or data phase ends the call with no further transfer.
C6_TransferOrder ==
  pc # "idle" =>
    LET exp == ExpectedWire(call.data_in_len, call.data_out) IN
    /\ Len(wire) <= Len(exp)
    /\ \A i \in 1 .. Len(wire) :
         /\ wire[i].what = exp[i].what
         /\ wire[i].ep = exp[i].ep
         /\ wire[i].len = exp[i].len
    /\ \A i \in 1 .. Len(wire) - 1 : ~XferFailed(wire[i])
    /\ (pc = "done" => (Len(wire) = Len(exp) \/ XferFailed(LastWire)))
    /\ (pc # "done" => (Len(wire) < Len(exp) /\ (Len(wire) > 0 => ~XferFailed(LastWire))))

C6_Witness ==
  /\ pc = "done"
  /\ call.data_in_len > 0 /\ call.data_out.len > 0
  /\ Len(wire) = 3
  /\ wire[2].what = "data_in" /\ wire[3].what = "csw"

\* C7: for a CDB of 6 to 16 bytes the CBW written is 31 bytes: "USBC", tag
\* little-endian, expected length little-endian (data_in_len if non-zero, else
\* size of data_out), flags 0x80 iff data_in_len > 0, LUN 0, CDB length, CDB
\* zero-padded to 16.
C7_CbwLayout ==
  (Len(wire) > 0 /\ Len(call.cdb) >= 6 /\ Len(call.cdb) <= 16) =>
    LET b == wire[1].data
        explen == IF call.data_in_len # 0 THEN call.data_in_len ELSE call.data_out.len
    IN  /\ wire[1].what = "cbw"
        /\ Len(b) = 31
        /\ \A i \in 1 .. 31 : b[i] \in 0 .. 255
        /\ b[1] = 85 /\ b[2] = 83 /\ b[3] = 66 /\ b[4] = 67
        /\ b[5] + 256 * b[6] = call.tag.lo
        /\ b[7] + 256 * b[8] = call.tag.hi
        /\ b[9] + 256 * b[10] + 65536 * b[11] + 16777216 * b[12] = explen
        /\ b[13] = (IF call.data_in_len > 0 THEN 128 ELSE 0)
        /\ b[14] = 0
        /\ b[15] = Len(call.cdb)
        /\ \A i \in 1 .. 16 :
             b[15 + i] = (IF i <= Len(call.cdb) THEN call.cdb[i] ELSE 0)

C7_Witness ==
  /\ Len(wire) > 0
  /\ Len(call.cdb) = 10
  /\ call.data_in_len = 0 /\ call.data_out.len = 57627
  /\ call.tag = U32Of(HandshakeTag)
  /\ wire[1].data[9] = 27 /\ wire[1].data[10] = 225

\* C8 as stated: every auto-assigned tag is non-zero and strictly greater than
\* every earlier auto-assigned tag; an explicit tag is used verbatim and leaves
\* the counter unchanged.
C8_AutoTagsStrictlyIncrease ==
  pc # "idle" =>
    IF call.tagArg = Zero32
    THEN /\ call.tag # Zero32
         /\ (call.prevAuto.valid => Lt32(call.prevAuto.tag, call.tag))
    ELSE /\ FromTagBytes(SubSeq(cbw, 5, 8)) = call.tagArg
         /\ TAG = call.before

\* C8 amended: an auto-tagged call writes the counter value and advances the
\* counter by one modulo 2^32, so each auto-assigned tag is the previous one
\* plus one modulo 2^32 (strictly greater unless the previous one was
\* 2^32 - 1, after which the tag 0 is assigned); an explicit non-zero tag is
\* used verbatim and leaves the counter unchanged.
C8_AutoTagsCountModulo ==
  pc # "idle" =>
    IF call.tagArg = Zero32
    THEN /\ FromTagBytes(SubSeq(cbw, 5, 8)) = call.before
         /\ TAG = Inc32(call.before)
         /\ (call.prevAuto.valid =>
               /\ call.tag = Inc32(call.prevAuto.tag)
               /\ (call.prevAuto.tag # Max32 => Lt32(call.prevAuto.tag, call.tag))
               /\ (call.prevAuto.tag = Max32 => call.tag = Zero32))
    ELSE /\ FromTagBytes(SubSeq(cbw, 5, 8)) = call.tagArg
         /\ TAG = call.before

C8_Witness ==
  /\ pc # "idle"
  /\ call.tagArg = Zero32
  /\ call.prevAuto.valid /\ call.prevAuto.tag = Max32
  /\ FromTagBytes(SubSeq(cbw, 5, 8)) = Zero32

\* the kinds of transfer logged for chunk i of the running frame
ChunkWhats(i) ==
  LET sel == SelectSeq(frameWire, LAMBDA e : e.idx = i)
  IN  [k \in 1 .. Len(sel) |-> sel[k].what]

\* C9: within one update_lcd_image call the chunk commands go out in index
\* order 0, 1, 2, each chunk's CBW / data-out / CSW round trip complete before
\* the next chunk's CBW, and no transfer of another frame in between.
C9_ChunksInOrder ==
  (caller = "update_lcd_image" /\ Len(frameWire) > 0) =>
    /\ frameWire[1].idx = 0 /\ frameWire[1].what = "cbw"
    /\ \A k \in 1 .. Len(frameWire) :
         /\ frameWire[k].frame = ulcd.frame
         /\ frameWire[k].idx \in 0 .. 2
    /\ \A k \in 1 .. Len(frameWire) - 1 :
         \/ frameWire[k + 1].idx = frameWire[k].idx
         \/ /\ frameWire[k + 1].idx = frameWire[k].idx + 1
            /\ frameWire[k + 1].what = "cbw"
            /\ ChunkWhats(frameWire[k].idx) = << "cbw", "data_out", "csw" >>

C9_Witness ==
  /\ caller = "update_lcd_image"
  /\ Len(frameWire) = 9
  /\ frameWire[9].idx = 2 /\ frameWire[9].what = "csw"
  /\ ulcd.frame = 2

\* C10: update_lcd_image returns true iff all three chunk commands returned
\* ok; at the first chunk that is not ok it returns false at once and issues
\* no command for the remaining chunks.
C10_FrameResult ==
  lastFrame.frame # 0 =>
    /\ lastFrame.ret = (Len(lastFrame.oks) = 3 /\ \A k \in 1 .. 3 : lastFrame.oks[k])
    /\ lastFrame.sent = Len(lastFrame.oks)
    /\ \A k \in 1 .. Len(lastFrame.oks) - 1 : lastFrame.oks[k]
    /\ (~lastFrame.ret /\ lastFrame.dev # NULL =>
          /\ Len(lastFrame.oks) >= 1
          /\ ~lastFrame.oks[Len(lastFrame.oks)])

C10_Witness ==
  /\ lastFrame.frame # 0
  /\ ~lastFrame.ret
  /\ lastFrame.oks = << TRUE, FALSE >>
  /\ lastFrame.sent = 2

\* the chunk lengths the device expects, in index order
ChunkLens == << 57600, 57600, 38400 >>

\* C11: every command update_lcd_image sends for chunk i has the 16-byte CDB
\* F5 01 01 i, eight zero bytes, the chunk length little-endian in bytes
\* 12..15, the chunk as data-out and data-in length 0; its CBW has flags 0x00
\* and transfer length equal to the chunk length
C11_ChunkCommand ==
  (caller = "update_lcd_image" /\ pc # "idle") =>
    LET i == ulcd.idx
        n == ChunkLens[i + 1]
    IN  /\ i \in 0 .. 2
        /\ Len(call.cdb) = 16
        /\ SubSeq(call.cdb, 1, 4) = << 245, 1, 1, i >>
        /\ \A k \in 5 .. 12 : call.cdb[k] = 0
        /\ SubSeq(call.cdb, 13, 16) = << n % 256, (n \div 256) % 256, (n \div 65536) % 256, 0 >>
        /\ call.data_out = Vec(n, << "frame", ulcd.frame, i >>)
        /\ call.data_in_len = 0
        /\ cbw[13] = 0
        /\ SubSeq(cbw, 9, 12) = SubSeq(call.cdb, 13, 16)
        /\ cbw[15] = 16
        /\ SubSeq(cbw, 16, 31) = call.cdb

\* the third chunk (38400 bytes) has been sent and answered
C11_Witness ==
  /\ caller = "update_lcd_image"
  /\ pc = "done"
  /\ ulcd.idx = 2
  /\ call.data_out.len = 38400
  /\ Len(wire) = 3


(* ---- the packer ---- *)
\* the source pixel of the last emitted pair: column, row and components
LastX == (pk.last.idx \div 3) % WIDTH
LastY == (pk.last.idx \div 3) \div WIDTH
LastRGB == << ImageByte(pk.img, pk.last.idx), ImageByte(pk.img, pk.last.idx + 1),
              ImageByte(pk.img, pk.last.idx + 2) >>

\* the 16-bit word of the last emitted pair, read low byte first
LastWord == pk.last.lo + 256 * pk.last.hi

\* the RGB565 word by field: 5 bits of red, 6 of green, 5 of blue
Word565(rgb) == (rgb[1] \div 8) * 2048 + (rgb[2] \div 4) * 32 + (rgb[3] \div 8)

\* C12: image_to_rgb565_chunks returns vectors of 57600, 57600 and 38400
\* bytes, 153600 in all, for every input buffer
C12_ChunkLengths ==
  pk.state = "done" =>
    /\ pk.sizes = << 57600, 57600, 38400 >>
    /\ pk.sizes[1] + pk.sizes[2] + pk.sizes[3] = 153600
    /\ pk.i = 3

C12_Witness ==
  /\ pk.state = "done"
  /\ pk.img = "corner"
  /\ pk.last.valid
  /\ pk.last.chunk = 2

\* C13 as stated: the emitted pair is the low then the high byte of
\* ((r & 0xF8) << 8) | ((g & 0xFC) << 3) | (b >> 3); (255,0,0) gives 00 F8
\* and (8,16,24) gives 43 08
C13_Rgb565AsStated ==
  pk.last.valid =>
    /\ pk.last.lo \in 0 .. 255
    /\ pk.last.hi \in 0 .. 255
    /\ LastWord = Word565(LastRGB)
    /\ (LastRGB = << 255, 0, 0 >> => pk.last.lo = 0 /\ pk.last.hi = 248)
    /\ (LastRGB = << 8, 16, 24 >> => pk.last.lo = 67 /\ pk.last.hi = 8)

\* C13 amended: the same word and byte order, where (8,16,24) gives the word
\* 0x0883, emitted as 83 08
C13_Rgb565 ==
  pk.last.valid =>
    /\ pk.last.lo \in 0 .. 255
    /\ pk.last.hi \in 0 .. 255
    /\ LastWord = Word565(LastRGB)
    /\ (LastRGB = << 255, 0, 0 >> => pk.last.lo = 0 /\ pk.last.hi = 248)
    /\ (LastRGB = << 8, 16, 24 >> => pk.last.lo = 131 /\ pk.last.hi = 8)

\* the pixel (8,16,24) at row 0 column 0 has been packed
C13_Witness ==
  /\ pk.last.valid
  /\ pk.img = "corner"
  /\ LastRGB = << 8, 16, 24 >>
  /\ LastWord = 2179

\* the band of column x and the band's first column
BandOf(x) == IF x < 120 THEN 0 ELSE IF x < 240 THEN 1 ELSE 2
BandStart == << 0, 120, 240 >>

\* C14: the pixel at row y, column x is written at byte offset
\* ((x - s_b) * 240 + (239 - y)) * 2 of chunk b, the band of x; chunk 0 starts
\* with row 239 column 0 and row 0 column 0 is at offset 478 of chunk 0
C14_PixelPosition ==
  pk.last.valid =>
    LET b == BandOf(LastX) IN
    /\ LastX \in 0 .. WIDTH - 1
    /\ LastY \in 0 .. HEIGHT - 1
    /\ pk.last.chunk = b
    /\ pk.last.offset = ((LastX - BandStart[b + 1]) * 240 + (239 - LastY)) * 2
    /\ (pk.last.chunk = 0 /\ pk.last.offset = 0 => LastX = 0 /\ LastY = 239)
    /\ (LastX = 0 /\ LastY = 0 => pk.last.chunk = 0 /\ pk.last.offset = 478)

\* row 0 column 0 has been written
C14_Witness ==
  /\ pk.last.valid
  /\ pk.last.idx = 0
  /\ pk.last.offset = 478
  /\ pk.col = 1
  /\ pk.row = 0

\* unpacking: the column and row a byte offset of a chunk stands for
UnpackX(chunk, offset) == BandStart[chunk + 1] + ((offset \div 2) \div HEIGHT)
UnpackY(chunk, offset) == (HEIGHT - 1) - ((offset \div 2) % HEIGHT)

\* unpacking: the components a pair of bytes stands for
Decode565(lo, hi) ==
  LET v == lo + 256 * hi
  IN  << (v \div 2048) * 8, ((v \div 32) % 64) * 4, (v % 32) * 8 >>

\* the components with the bits RGB565 drops cleared
Quantize(rgb) == << rgb[1] - (rgb[1] % 8), rgb[2] - (rgb[2] % 4), rgb[3] - (rgb[3] % 8) >>

\* C15 as stated: unpacking by the reverse permutation gives back the original
\* pixel of every position, exactly
C15_UnpackRestoresExactly ==
  pk.last.valid =>
    LET x == UnpackX(pk.last.chunk, pk.last.offset)
        y == UnpackY(pk.last.chunk, pk.last.offset)
    IN  /\ PixelIndex(y, x) = pk.last.idx
        /\ Decode565(pk.last.lo, pk.last.hi) = Pixel(pk.img, x, y)

\* C15 amended: unpacking gives back every pixel at its own position with the
\* low 3, 2 and 3 bits of red, green and blue cleared; exactly the original
\* only where those bits were zero
C15_UnpackRestoresQuantized ==
  pk.last.valid =>
    LET x == UnpackX(pk.last.chunk, pk.last.offset)
        y == UnpackY(pk.last.chunk, pk.last.offset)
    IN  /\ x \in 0 .. WIDTH - 1
        /\ y \in 0 .. HEIGHT - 1
        /\ PixelIndex(y, x) = pk.last.idx
        /\ Decode565(pk.last.lo, pk.last.hi) = Quantize(Pixel(pk.img, x, y))
        /\ (Pixel(pk.img, x, y) = Quantize(Pixel(pk.img, x, y))
              => Decode565(pk.last.lo, pk.last.hi) = Pixel(pk.img, x, y))

\* a pixel of the last band that RGB565 cannot hold exactly has been packed
C15_Witness ==
  /\ pk.last.valid
  /\ pk.img = "corner"
  /\ pk.last.chunk = 2
  /\ LastRGB # Quantize(LastRGB)
  /\ pk.state = "done"


(* ---- the device handle ---- *)
\* C16: init_dev returns false when no device matches and when the claim of
\* interface 0 fails, and returns true only with a handle open and interface 0
\* claimed
C16_InitDevReportsFailure ==
  devOp.name = "init_dev" =>
    /\ (~devOp.found => devOp.ret = "false")
    /\ (devOp.found /\ devOp.openOk /\ ~devOp.claimOk => devOp.ret = "false")
    /\ (devOp.ret = "true" => _dev \in openHandles /\ devOp.claimOk)

\* C17: at most one handle is open; init_dev on an open handle releases and
\* closes it first and makes no later call on the closed handle
C17_OneHandleOldNeverUsed ==
  /\ Cardinality(openHandles) <= 1
  /\ (devOp.name = "init_dev" /\ devOp.devBefore \in devOp.openBefore) =>
       /\ Len(devOp.log) >= 2
       /\ devOp.log[1] = [fn |-> "libusb_release_interface", h |-> devOp.devBefore,
                          live |-> TRUE]
       /\ devOp.log[2] = [fn |-> "libusb_close", h |-> devOp.devBefore, live |-> TRUE]
       /\ \A k \in 3 .. Len(devOp.log) :
            ~(devOp.log[k].h = devOp.devBefore /\ ~devOp.log[k].live)

\* C18: cleanup_dev on an open handle releases the interface, closes the
\* handle and clears _dev; with no device open it makes no USB call and
\* changes nothing
C18_CleanupIdempotent ==
  devOp.name = "cleanup_dev" =>
    IF devOp.devBefore \in devOp.openBefore
    THEN /\ devOp.log = << [fn |-> "libusb_release_interface", h |-> devOp.devBefore,
                            live |-> TRUE],
                           [fn |-> "libusb_close", h |-> devOp.devBefore,
                            live |-> TRUE] >>
         /\ _dev = NULL
         /\ openHandles = devOp.openBefore \ {devOp.devBefore}
    ELSE /\ devOp.log = << >>
         /\ _dev = devOp.devBefore
         /\ openHandles = devOp.openBefore


(* ---- device_ready ---- *)
ReadyReturned == dr.stage = "returned"

\* C19: device_ready sends TEST UNIT READY first; it returns true exactly when
\* that command is ok and then has issued nothing else; on status 1 it has
\* issued REQUEST SENSE (18 bytes in), then the Mass Storage Reset, then
\* clear-halt on 0x81 and on 0x02, and returns false; on status 2 the same
\* reset and clear-halts without REQUEST SENSE, and returns false
C19_DeviceReady ==
  LET tur == [op |-> "scsi", cdb |-> << 0, 0, 0, 0, 0, 0 >>, data_out |-> EmptyVec,
              data_in_len |-> 0]
      sense == [op |-> "scsi", cdb |-> << 3, 0, 0, 0, 18, 0 >>, data_out |-> EmptyVec,
                data_in_len |-> 18]
      reset == << [op |-> "control", bmRequestType |-> 33, bRequest |-> 255],
                  [op |-> "clear_halt", ep |-> 129],
                  [op |-> "clear_halt", ep |-> 2] >>
  IN  /\ (caller = "device_ready" => Len(ctl) >= 1 /\ ctl[1] = tur)
      /\ ReadyReturned =>
           /\ dr.ret <=> dr.tur.ok
           /\ (dr.tur.ok => ctl = << tur >>)
           /\ (~dr.tur.ok /\ dr.tur.status = 1 => ctl = << tur, sense >> \o reset)
           /\ (~dr.tur.ok /\ dr.tur.status = 2 => ctl = << tur >> \o reset)

\* device_ready has returned false after a check condition, having read the
\* sense data and reset the transport
C19_Witness ==
  /\ ReadyReturned
  /\ ~dr.ret
  /\ dr.tur.status = 1
  /\ Len(ctl) = 5
  /\ dr.n = 2


(* ---- handshake_with_device ---- *)
\* C20: the 10-second deadline bounds both stages: when Stage 1 has obtained
\* no ok TUR or MODE SENSE before the deadline the handshake returns false
\* with no Stage 2 command issued, and no SCSI command of either stage is
\* started once the deadline has passed
C20_DeadlineBoundsBothStages ==
  /\ (hs.stage = "returned" /\ ~(hs.s1ok /\ hs.okAt < hs.overall_deadline))
       => (~hs.ret /\ hs.nstage2 = 0)
  /\ hs.lastStart.valid => hs.lastStart.at < hs.overall_deadline


\* the Stage 2 steps in program order, and those with a data-in phase
Stage2Steps == << "inquiry", "apix", "full", "echo" >>
Stage2DataIn == {"inquiry", "apix", "full"}
Stage2Index(step) == CHOOSE k \in 1 .. 4 : Stage2Steps[k] = step
Stage2Bad(r) == ~r.ok \/ (r.step \in Stage2DataIn /\ r.len = 0)

FrameBytes == WIDTH * HEIGHT * 3

\* C22: whatever the two paths name and whatever was called before,
\* get_background_bytes returns exactly 230400 bytes and never an empty
\* buffer, and the buffer is the gradient when both paths are empty or no
\* source gave an image.
C22_AlwaysFullFrame ==
  bg_manager.last.valid =>
    /\ bg_manager.last.outcome = "bytes"
    /\ bg_manager.last.size = FrameBytes
    /\ (bg_manager.last.img.empty /\ bg_manager.last.vid.empty)
         => bg_manager.last.source = "gradient"

\* the source the selection table names for an image and a video frame, the
\* alpha decision being that of the image itself
TableSource(img, vid) ==
  IF ~img.empty /\ ~vid.empty
  THEN IF img.channels = 4 THEN "blend" ELSE "image"
  ELSE IF ~vid.empty THEN "video"
  ELSE IF ~img.empty THEN "image"
  ELSE "gradient"

\* C23: each call chooses its source by the table from (image loaded, that
\* image has alpha, video frame available), and the alpha decision is that of
\* the image returned in this call, never of an image loaded earlier.
C23_SourceFollowsReturnedImage ==
  bg_manager.last.valid =>
    bg_manager.last.source = TableSource(bg_manager.last.img, bg_manager.last.vid)

\* the call that has just returned asked for an image file that exists
ImageCall ==
  /\ bg_manager'.ncalls = bg_manager.ncalls + 1
  /\ bg_manager'.last.image_path # ""
  /\ FileExists(bg_manager'.last.image_path)

\* the cached key is the path of the call and the mtime of its file
KeyMatches ==
  /\ bg_manager.static_bg_path = bg_manager'.last.image_path
  /\ bg_manager.static_bg_mtime = fs[bg_manager'.last.image_path].mtime

\* C24: a call whose path and mtime equal the cached key returns the cached
\* image without decoding; a call whose path or mtime differs decodes the
\* file and, when that succeeds, the cache holds the new image under the new
\* key.
C24_CacheKeyedByPathAndMtime ==
  [][ImageCall =>
        LET p == bg_manager'.last.image_path
            fresh == [src |-> "file", path |-> p, ver |-> fs[p].mtime]
        IN  /\ KeyMatches =>
                 /\ ~bg_manager'.last.decoded
                 /\ bg_manager'.last.img = bg_manager.static_bg
                 /\ bg_manager'.static_bg = bg_manager.static_bg
                 /\ bg_manager'.static_bg_path = bg_manager.static_bg_path
                 /\ bg_manager'.static_bg_mtime = bg_manager.static_bg_mtime
            /\ ~KeyMatches =>
                 /\ bg_manager'.last.decoded
                 /\ ~bg_manager'.last.img.empty =>
                      /\ bg_manager'.last.img.content = fresh
                      /\ bg_manager'.static_bg.content = fresh
                      /\ bg_manager'.static_bg_path = p
                      /\ bg_manager'.static_bg_mtime = fs[p].mtime]_vars

\* a changed file was decoded again and the call after it was served from the
\* cache
C24_Witness ==
  /\ bg_manager.ncalls = 3
  /\ bg_manager.last.hit /\ ~bg_manager.last.decoded
  /\ bg_manager.last.img.content = [src |-> "file", path |-> "a.png", ver |-> 2]
  /\ bg_manager.static_bg_mtime = 2

(* ---- VideoBackground ---- *)
Preloaded(v) == v.exists /\ ~v._streaming /\ v._frames >= 1

\* C25: in loop mode over N >= 1 preloaded frames the index is 0 at the start
\* and each tick of the worker sets it to (index + 1) mod N.
C25_LoopIndex ==
  (Preloaded(video_bg) /\ video_bg.mode = "loop")
    => video_bg._frame_index = video_bg.ticks % video_bg._frames

\* the index has wrapped from the last frame to frame 0 and gone on
C25_Witness ==
  /\ Preloaded(video_bg) /\ video_bg.mode = "loop"
  /\ video_bg._frames = 3 /\ video_bg.ticks = 4 /\ video_bg._frame_index = 1

\* the index after t ticks of 0, 1, ..., N-1, N-2, ..., 0, 1, ...
BounceAt(n, t) ==
  IF n = 1 THEN 0
  ELSE LET pos == t % (2 * (n - 1))
       IN  IF pos <= n - 1 THEN pos ELSE (2 * (n - 1)) - pos

\* C26: in bounce mode over N >= 1 preloaded frames the index runs
\* 0, 1, ..., N-1, N-2, ..., 0, 1, ...: it turns exactly at N-1 and at 0 and
\* stays on no endpoint for two ticks.
C26_BounceSequence ==
  (Preloaded(video_bg) /\ video_bg.mode = "bounce")
    => video_bg._frame_index = BounceAt(video_bg._frames, video_bg.ticks)

\* the duration the claim compares with ten seconds: frame_count / fps, and 0
\* when fps is not positive (fps in thousandths)
LongerThanTen(file) ==
  IF file.fps > 0 THEN file.total_frames * 1000 > 10 * file.fps ELSE FALSE

\* C27: the object streams exactly when frame_count / fps exceeds 10 seconds
\* (a duration of 0 when fps <= 0) and preloads its frames otherwise, and the
\* choice made at construction stays for the life of the object.
C27_ModeByDuration ==
  (video_bg.exists /\ video_bg.file.opened) =>
    /\ video_bg._streaming <=> LongerThanTen(video_bg.file)
    /\ ~video_bg._streaming => video_bg._frames = video_bg.file.nread
    /\ video_bg._streaming => video_bg._frames = 0

\* a clip of exactly ten seconds is being played from memory
C27_Witness ==
  /\ video_bg.exists /\ video_bg.file.opened
  /\ video_bg.file.total_frames = 240 /\ video_bg.file.fps = 24000
  /\ ~video_bg._streaming /\ video_bg._frames = 3 /\ video_bg.ticks = 2

(* ---- the metrics poller ---- *)
\* C28: the keys of the snapshot, which get_available_metrics() and
\* get_info() return, are at every time exactly the metrics detection
\* registered at construction: none is added and none removed.
C28_KeySetFixed ==
  poller.exists => DOMAIN poller.info = poller.detected

\* key k has in the snapshot what it had before the iteration
KeptValue(k) ==
  /\ (k \in DOMAIN poller.info) <=> (k \in DOMAIN poller.last.before)
  /\ (k \in DOMAIN poller.info) => poller.info[k] = poller.last.before[k]
GpuKeys == {"gpu_temp", "gpu_usage", "gpu_clock", "gpu_fan"}

\* C29: a sample that throws or is out of range leaves its key's value as it
\* was, the other samples of the batch are still taken and merged, and the
\* worker goes on to its next tick.
C29_FailedSampleKeepsValue ==
  poller.last.valid =>
    LET l == poller.last
    IN  /\ l.running
        /\ l.fast =>
             /\ l.f.percent.throws => KeptValue("cpu_percent")
             /\ (l.f.cputemp.throws \/ ~(l.f.cputemp.v > 150 /\ l.f.cputemp.v < 1000))
                  => KeptValue("cpu_temp")
             /\ l.f.gpu.throws => \A k \in GpuKeys : KeptValue(k)
             /\ (~l.f.percent.throws /\ l.f.percent.v > 0 /\ l.f.percent.v < 101)
                  => ("cpu_percent" \in DOMAIN poller.info
                      /\ poller.info["cpu_percent"] = l.f.percent.v)
             /\ (~l.f.cputemp.throws /\ l.f.cputemp.v > 150 /\ l.f.cputemp.v < 1000)
                  => ("cpu_temp" \in DOMAIN poller.info
                      /\ poller.info["cpu_temp"] = l.f.cputemp.v)
             /\ (~l.f.cpufreq.throws /\ l.f.cpufreq.v > 0)
                  => ("cpu_freq" \in DOMAIN poller.info
                      /\ poller.info["cpu_freq"] = l.f.cpufreq.v)
        /\ l.slow =>
             /\ l.s.disk.throws
                  => (KeptValue("disk_percent") /\ KeptValue("disk_free_gb"))
             /\ (l.s.mem.throws \/ l.s.mem.v[1] <= 0) => KeptValue("mem_percent")
             /\ (~l.s.mem.throws /\ l.s.mem.v[1] > 0)
                  => ("mem_percent" \in DOMAIN poller.info
                      /\ poller.info["mem_percent"] = l.s.mem.v[1])
             /\ (~l.s.disk.throws /\ l.s.disk.v[1] > 0)
                  => ("disk_percent" \in DOMAIN poller.info
                      /\ poller.info["disk_percent"] = l.s.disk.v[1])
        /\ ~l.fast => \A k \in FastKeys : KeptValue(k)
        /\ ~l.slow => \A k \in SlowKeys : KeptValue(k)

\* in the second iteration the temperature probe threw: cpu_temp keeps the
\* 15.1 degrees of the first iteration while cpu_percent takes its new sample
C29_Witness ==
  /\ poller.last.valid /\ poller.last.fast /\ poller.npolls = 2
  /\ poller.last.f.cputemp.throws
  /\ "cpu_temp" \in DOMAIN poller.info /\ poller.info["cpu_temp"] = 151
  /\ "cpu_percent" \in DOMAIN poller.last.before
  /\ poller.last.before["cpu_percent"] = 0
  /\ poller.info["cpu_percent"] = 50
  /\ poller._running

\* C30: a cpu_temp reading v is accepted exactly when 15 < v < 100, by
\* detection when it registers cpu_temp and by a poll when it writes the
\* sample: 14.9 and 100.0 are rejected, 15.1 and 99.9 accepted.
C30_CpuTempRange ==
  /\ (poller.exists /\ poller.machine.hwmon) =>
       (("cpu_temp" \in poller.detected)
          <=> (poller.machine.cputemp > 150 /\ poller.machine.cputemp < 1000))
  /\ (poller.last.valid /\ poller.last.fast /\ ~poller.last.f.cputemp.throws) =>
       (("cpu_temp" \in DOMAIN poller.last.fast_out)
          <=> (poller.last.f.cputemp.v > 150 /\ poller.last.f.cputemp.v < 1000))

(* ---- the frame index and the failed image load ---- *)
\* C37: in every state of a preloaded VideoBackground with N >= 1 frames, in
\* loop mode and in bounce mode, 0 <= index < N, so get_current_frame never
\* reads outside the frame vector.
C37_IndexInRange ==
  Preloaded(video_bg) =>
    (video_bg._frame_index >= 0 /\ video_bg._frame_index < video_bg._frames)

\* the call that has just returned asked for an image and got none, while an
\* earlier image is cached
FailedLoad ==
  /\ bg_manager'.ncalls = bg_manager.ncalls + 1
  /\ bg_manager'.last.image_path # ""
  /\ bg_manager'.last.img.empty
  /\ ~bg_manager.static_bg.empty

\* C40: when the image file is missing or cannot be decoded or resized, the
\* call falls back to the video frame if there is one and to the gradient
\* otherwise, and the cached image, its (path, mtime) key and its has-alpha
\* flag are what they were before the call.
C40_FailedLoadKeepsCache ==
  [][FailedLoad =>
       /\ bg_manager'.last.source =
            (IF bg_manager'.last.vid.empty THEN "gradient" ELSE "video")
       /\ bg_manager'.static_bg = bg_manager.static_bg
       /\ bg_manager'.static_bg_path = bg_manager.static_bg_path
       /\ bg_manager'.static_bg_mtime = bg_manager.static_bg_mtime
       /\ bg_manager'.has_alpha = bg_manager.has_alpha]_vars


(* ---- the handshake's Stage 1 iteration and Stage 2 sequence ---- *)
\* the device answered the command that has just returned: the data-in read
\* delivered at least 14 bytes and the CSW was valid with status 0
SenseDelivered ==
  /\ result.ok
  /\ \E i \in DOMAIN wire :
       wire[i].what = "data_in" /\ wire[i].rc = 0 /\ wire[i].transferred >= 14

\* C35: in a Stage 1 iteration a REQUEST SENSE that the device answered with
\* a well-formed response (14 bytes or more) is followed by MODE SENSE(6)
\* directly, with no transport reset in between
C35_WellFormedSenseNoReset ==
  [][(hs.stage = "sense" /\ hs'.stage = "mode" /\ SenseDelivered)
       => ctl' = Append(ctl, ScsiOp(mode_cdb, EmptyVec, 192))]_vars

\* C36: a Stage 2 whose INQUIRY the program saw succeed does not end at the
\* INQUIRY: the APIX probe, the full read and the echo write follow it
C36_InquiryOkGoesOn ==
  ~(hs.stage = "returned" /\ hs.s2res.step = "inquiry" /\ hs.s2res.ok)

\* the last three entries of c before its last one are the transport reset
ResetBeforeLast(c) ==
  /\ Len(c) >= 4
  /\ SubSeq(c, Len(c) - 3, Len(c) - 1) = BotReset

\* C39: when a command of the handshake has returned status 2 and the
\* handshake goes on to its next command, the Mass Storage Reset and the two
\* clear-halts come before that command's CBW
C39_ResetAfterStatus2 ==
  [][(/\ caller = "handshake_with_device"
      /\ pc = "done"
      /\ ~result.ok
      /\ result.status = 2
      /\ pc' = "write_cbw")
       => ResetBeforeLast(ctl')]_vars

(* ---- the playback worker across get_background calls ---- *)
\* a get_background call whose video path is the path of the existing object
SamePathCall ==
  /\ bg_manager'.ncalls = bg_manager.ncalls + 1
  /\ video_bg.exists
  /\ bg_manager'.last.video_path = video_bg.path

\* C38: over get_background calls with changing video paths at most one
\* playback worker is alive after a call, the old object's worker has been
\* stopped and joined when the new object is constructed, and a call with the
\* path of the existing object leaves the object and its playback as they are
C38_OneWorker ==
  /\ [](/\ bg_manager.last.workers_after <= 1
        /\ bg_manager.last.replaced => bg_manager.last.workers_at_new = 0)
  /\ [][SamePathCall => video_bg' = video_bg]_vars

\* a call replaced an object whose worker was running, and the new object's
\* worker runs
C38_Witness ==
  /\ bg_manager.last.replaced
  /\ bg_manager.last.workers_before = 1
  /\ Workers(video_bg) = 1

(* ---- the poller's worker thread, its schedule and its readers ---- *)
\* C31: there is at most one worker thread, start() while running making no
\* second one; stop() on a stopped poller changes nothing; stop() returns
\* only when no worker is left in _poll_loop; start() after a stop() that
\* has returned launches a worker again
C31_OneWorkerThread ==
  /\ [](poller.live <= 1)
  /\ [][(poller.owner = "idle" /\ poller'.owner = "stop"
         /\ ~poller._running /\ poller._thread = "none")
          => (/\ ~poller'._running
              /\ poller'._thread = "none"
              /\ poller'.live = 0
              /\ poller'.info = poller.info)]_vars
  /\ [][(poller.owner = "stop" /\ poller'.owner = "idle")
          => (poller.live = 0 /\ poller'._thread = "none")]_vars
  /\ [][(poller.stopped /\ ~poller'.stopped)
          => (/\ poller'._running
              /\ poller'._thread = "running"
              /\ poller'.live = 1)]_vars

\* a worker launched after an earlier worker has run and been stopped: its
\* first iteration is later than the first iteration of the program
C31_Witness ==
  /\ poller.live = 1
  /\ poller.sched.valid
  /\ poller.sched.first
  /\ poller.sched.now > ClockStart

\* an iteration of the worker that merges a batch into the snapshot
MergeStep ==
  /\ poller'.clock # poller.clock
  /\ poller'.sched.valid
  /\ poller'.sched.fast \/ poller'.sched.slow

\* C33: no merge writes the snapshot while get_info or get_available_metrics
\* is reading it
C33_ReadersExcluded ==
  [][MergeStep => poller.owner \notin {"get_info", "get_available_metrics"}]_vars

\* C34: in each iteration a batch runs exactly if now has reached its
\* deadline, and its deadline then becomes now plus its interval; in a
\* worker's first iteration both run; the fast batch runs before the slow
\* one; and while the clock has not gone backwards, two runs of a batch by a
\* worker are at least the batch's interval apart
C34_Schedule ==
  poller.sched.valid =>
    /\ poller.sched.fast <=> poller.sched.now >= poller.sched.nf
    /\ poller.sched.slow <=> poller.sched.now >= poller.sched.ns
    /\ poller.next_fast = IF poller.sched.fast
                          THEN poller.sched.now + fast_interval
                          ELSE poller.sched.nf
    /\ poller.next_slow = IF poller.sched.slow
                          THEN poller.sched.now + slow_interval
                          ELSE poller.sched.ns
    /\ poller.sched.first => poller.sched.fast /\ poller.sched.slow
    /\ poller.sched.order =
         (IF poller.sched.fast THEN << "fast" >> ELSE << >>)
           \o (IF poller.sched.slow THEN << "slow" >> ELSE << >>)
    /\ (poller.sched.fast /\ poller.sched.prev_fast >= 0 /\ poller.sched.mono_fast)
         => poller.sched.now - poller.sched.prev_fast >= fast_interval
    /\ (poller.sched.slow /\ poller.sched.prev_slow >= 0 /\ poller.sched.mono_slow)
         => poller.sched.now - poller.sched.prev_slow >= slow_interval

\* a worker runs the slow batch for the second time, the clock having gone
\* forward only, in an iteration where the fast batch is not due
C34_Witness ==
  /\ poller.sched.valid
  /\ poller.sched.slow
  /\ ~poller.sched.fast
  /\ poller.sched.prev_slow >= 0
  /\ poller.sched.mono_slow

(* ---- stop() returns ---- *)
\* C32: under fair scheduling a stop() of the video background and a stop()
\* of the poller return; a worker whose flag has been cleared does no further
\* iteration; and after stop() has returned the frame index, the direction,
\* the current frame and the snapshot no longer change
C32_StopReturns ==
  /\ video_bg.stopping ~> ~video_bg.stopping
  /\ (poller.owner = "stop") ~> (poller.owner = "idle")
  /\ [][(video_bg.stopped /\ video_bg'.stopped)
          \/ (video_bg._thread = "running" /\ ~video_bg._playing)
          => (/\ video_bg'._frame_index = video_bg._frame_index
              /\ video_bg'._forward = video_bg._forward
              /\ video_bg'._current_frame = video_bg._current_frame)]_vars
  /\ [][(poller.stopped /\ poller'.stopped)
          \/ (poller._thread = "running" /\ ~poller._running)
          => poller'.info = poller.info]_vars

\* both stop() calls have returned after both workers have iterated
C32_Witness ==
  /\ video_bg.stopped
  /\ video_bg.ticks > 0
  /\ poller.stopped
  /\ poller.sched.valid

====
